---- MODULE Spec2Model ----
(***************************************************************************)
(* Model of the structural-links rule-evaluation core:                     *)
(*   - pathMatcher.ts   jsonPathToRegex / matchesPath                      *)
(*   - linkBuilder.ts   injectSystemVariables, createLink                  *)
(*   - extension.ts     getLinks, regexCache, activate / deactivate         *)
(* A JavaScript string is a sequence of one-character strings.  The three  *)
(* private code units of pathMatcher.ts (U+0000, U+0001, U+0002) are the   *)
(* atoms SEP, DOT_LITERAL and RECURSIVE_TOKEN.                             *)
(***************************************************************************)
EXTENDS Integers, Sequences, FiniteSets, TLC

VARIABLES
    pc,           \* position: "idle" before the call, then the call made
    input,        \* injectSystemVariables: the template
    vars,         \* injectSystemVariables: Object.entries(vars), in order
    result,       \* injectSystemVariables: the returned string
    jsonPath,     \* matchesPath: the expression
    currentPath,  \* matchesPath: the breadcrumb (sequence of tokens)
    matched,      \* matchesPath: the returned boolean
    matchedValue, \* createLink: the matched value
    rule,         \* createLink: the rule
    link,         \* createLink: the returned LinkDetails or null
    regexCache,   \* extension.ts: the module's Map of compiled expressions
    config,       \* the setting structuralLinks.rules
    currentProvider, \* extension.ts: "undefined", "registered" or "disposed"
    handled,      \* extension.ts: the callback that ran last: "none", "activate",
                  \* "structuralLinks" or "other" (the section a settings change
                  \* affects), "provideDocumentLinks" or "deactivate"
    registered,   \* the number of link providers registered with the editor
    document,     \* getLinks: the document of the last pass
    allRules,     \* getLinks: the rules the last pass read from the settings
    returned,     \* getLinks: the links the last pass returned
    docText,      \* getLinks: text, the text of the document
    textPatternRules, \* getLinks: the rules that have a textPattern
    ruleIndex,    \* getLinks: the rule the forEach of line 174 is at
    turns,        \* getLinks: the turns of the while loop of line 182 made
                  \* by the scan, modulo TurnsModulus
    patternIndex, \* getLinks: the pattern the loop of line 179 is at
    globalRegex,  \* getLinks: the RegExp object of the pattern, lastIndex in it
    textLinks     \* getLinks: links, the DocumentLinks pushed so far

resolveVars  == <<input, vars, result>>
matchVars    == <<jsonPath, currentPath, matched>>
linkVars     == <<matchedValue, rule, link>>
providerVars == <<regexCache, config, currentProvider, registered, document, allRules,
                  returned, handled>>
scanVars     == <<docText, textPatternRules, ruleIndex, patternIndex, globalRegex,
                  textLinks, turns>>
allVars      == <<pc, resolveVars, matchVars, linkVars, providerVars, scanVars>>

\* ------------------------------------------------------------ bounds
MaxValLen == 2      \* characters in a freely drawn variable value
MaxPieces == 2      \* pieces (placeholder or text) in a template
MaxDepth  == 3      \* tokens in a breadcrumb
MaxChars  == 3      \* characters in a breadcrumb, all tokens together
MaxKeyLen == 2      \* characters in the raw text of a quoted key
MaxTransforms == 2  \* transforms in the list of a rule
MaxTextLen == 2     \* characters in the text of a document
MaxLinks == 5       \* links of one text scan that the model keeps; more than
                    \* a scan that ends makes
TurnsModulus == 2   \* the turns of the while loop are counted modulo this

\* ------------------------------------------------------------ characters
SEP             == "<U+0000>"
DOT_LITERAL     == "<U+0001>"
RECURSIVE_TOKEN == "<U+0002>"
BSL             == "\\"
DQ              == "\""
SQ              == "'"
BQ              == "<U+0060>"   \* the grave accent
LF              == "\n"

LineTerminators == {"\n", "\r"}
WhiteSpace      == {" ", "\t", "\n", "\r"}   \* those of trim() that inputs can hold
Digits          == {"0", "1", "2", "3", "4", "5", "6", "7", "8", "9"}
Letters ==
    {"a", "b", "c", "d", "e", "f", "g", "h", "i", "j", "k", "l", "m",
     "n", "o", "p", "q", "r", "s", "t", "u", "v", "w", "x", "y", "z",
     "A", "B", "C", "D", "E", "F", "G", "H", "I", "J", "K", "L", "M",
     "N", "O", "P", "Q", "R", "S", "T", "U", "V", "W", "X", "Y", "Z"}

LowerCase ==
    <<"a", "b", "c", "d", "e", "f", "g", "h", "i", "j", "k", "l", "m",
      "n", "o", "p", "q", "r", "s", "t", "u", "v", "w", "x", "y", "z">>
UpperCase ==
    <<"A", "B", "C", "D", "E", "F", "G", "H", "I", "J", "K", "L", "M",
      "N", "O", "P", "Q", "R", "S", "T", "U", "V", "W", "X", "Y", "Z">>
\* the characters of the class \w
WordChars == Letters \cup Digits \cup {"_"}

\* ------------------------------------------------------------ strings
\* all sequences over S of length 0..n
RECURSIVE SeqsUpTo(_, _)
SeqsUpTo(S, n) ==
    IF n = 0 THEN {<<>>}
    ELSE LET shorter == SeqsUpTo(S, n - 1)
         IN  shorter \cup {Append(w, c) : w \in {v \in shorter : Len(v) = n - 1}, c \in S}

\* s.substring(i - 1): the characters from position i (1-based) on
Tail_(s, i) == SubSeq(s, i, Len(s))

\* the literal p stands in s at position i
MatchAt(s, i, p) ==
    /\ i + Len(p) - 1 <= Len(s)
    /\ SubSeq(s, i, i + Len(p) - 1) = p

\* String.prototype.startsWith
StartsWith(s, p) == MatchAt(s, 1, p)

\* String.prototype.includes, for a non-empty p
Includes(s, p) == \E i \in 1..Len(s) : MatchAt(s, i, p)

\* Array.prototype.join of a sequence of strings
RECURSIVE Join(_, _)
Join(parts, sep) ==
    IF Len(parts) = 0 THEN <<>>
    ELSE IF Len(parts) = 1 THEN parts[1]
    ELSE parts[1] \o sep \o Join(Tail(parts), sep)

\* String.prototype.trim
RECURSIVE TrimStart(_)
TrimStart(s) ==
    IF Len(s) > 0 /\ s[1] \in WhiteSpace THEN TrimStart(Tail(s)) ELSE s

RECURSIVE TrimEnd(_)
TrimEnd(s) ==
    IF Len(s) > 0 /\ s[Len(s)] \in WhiteSpace
    THEN TrimEnd(SubSeq(s, 1, Len(s) - 1)) ELSE s

Trim(s) == TrimEnd(TrimStart(s))

\* the value of a decimal digit
DigitValue(c) ==
    CASE c = "0" -> 0 [] c = "1" -> 1 [] c = "2" -> 2 [] c = "3" -> 3 [] c = "4" -> 4
      [] c = "5" -> 5 [] c = "6" -> 6 [] c = "7" -> 7 [] c = "8" -> 8 [] c = "9" -> 9

\* GetSubstitution of ECMAScript: the replacement STRING of
\* String.prototype.replace is a template in which "$$" is one "$", "$&" the
\* matched text, "$" + grave accent the text before the match, "$" + apostrophe
\* the text after it and
\* "$n" the n-th capture when the pattern has one (an unmatched capture is the
\* empty text); any other "$" is literal.  caps holds the texts of the
\* captures; the patterns of this model have fewer than ten, and the search
\* patterns none that is named, so that "$<" is literal.
RECURSIVE GetSubstitution(_, _, _, _, _, _)
GetSubstitution(repl, k, matchedText, before, after, caps) ==
    IF k > Len(repl) THEN <<>>
    ELSE IF repl[k] = "$" /\ k < Len(repl)
    THEN LET c == repl[k + 1]
             rest == GetSubstitution(repl, k + 2, matchedText, before, after, caps)
         IN  IF c = "$" THEN <<"$">> \o rest
             ELSE IF c = "&" THEN matchedText \o rest
             ELSE IF c = BQ THEN before \o rest
             ELSE IF c = SQ THEN after \o rest
             ELSE IF c \in Digits \ {"0"} /\ Len(caps) >= DigitValue(c)
             THEN caps[DigitValue(c)] \o rest
             ELSE <<"$">> \o GetSubstitution(repl, k + 1, matchedText, before, after, caps)
    ELSE <<repl[k]>> \o GetSubstitution(repl, k + 1, matchedText, before, after, caps)

\* s.replace(/p/g, repl) for a pattern that is the literal text p (no capture)
\* and a replacement STRING repl
RECURSIVE ReplaceAllFrom(_, _, _, _)
ReplaceAllFrom(s, i, p, repl) ==
    IF i > Len(s) THEN <<>>
    ELSE IF MatchAt(s, i, p)
    THEN GetSubstitution(repl, 1, p, SubSeq(s, 1, i - 1), Tail_(s, i + Len(p)), <<>>)
            \o ReplaceAllFrom(s, i + Len(p), p, repl)
    ELSE <<s[i]>> \o ReplaceAllFrom(s, i + 1, p, repl)

ReplaceAll(s, p, repl) == ReplaceAllFrom(s, 1, p, repl)

\* ------------------------------------------------------------ linkBuilder.ts
\* the text "${key}" that the pattern new RegExp('\\$\\{' + key + '\\}', 'g') matches
Placeholder(key) == <<"$", "{">> \o key \o <<"}">>

\* the for-loop over Object.entries(vars): one global replace per entry, each
\* on the output of the previous one
RECURSIVE SubstituteEntries(_, _, _)
SubstituteEntries(s, entries, k) ==
    IF k > Len(entries) THEN s
    ELSE SubstituteEntries(
            ReplaceAll(s, Placeholder(entries[k].key), entries[k].val),
            entries, k + 1)

isUri(s) == Includes(s, <<":", "/", "/">>)

isWindowsAbsPath(s) ==
    /\ Len(s) >= 3
    /\ s[1] \in Letters
    /\ s[2] = ":"
    /\ s[3] \in {BSL, "/"}

\* result.replace(/\\/, '/'): the first backslash only
FlipFirstSlash(s) ==
    IF \E i \in 1..Len(s) : s[i] = BSL
    THEN LET first == CHOOSE i \in 1..Len(s) : s[i] = BSL /\ \A j \in 1..(i - 1) : s[j] # BSL
         IN  [i \in 1..Len(s) |-> IF i = first THEN "/" ELSE s[i]]
    ELSE s

FlipSlashes(s) == [i \in 1..Len(s) |-> IF s[i] = BSL THEN "/" ELSE s[i]]

FILE2 == <<"f", "i", "l", "e", ":", "/", "/">>
FILE3 == <<"f", "i", "l", "e", ":", "/", "/", "/">>

\* the post-pass with "file://" replaced by "file:///" whenever the string
\* starts with "file://"
NormalizeSlashesAlways(s) ==
    LET flipped == IF isUri(s) \/ isWindowsAbsPath(s) THEN FlipSlashes(s) ELSE s
    IN  IF StartsWith(flipped, FILE2)
        THEN FILE3 \o Tail_(flipped, Len(FILE2) + 1)
        ELSE flipped

\* lines 108-121: the whole-string post-pass
NormalizeSlashes(s) ==
    LET flipped == IF isUri(s) \/ isWindowsAbsPath(s) THEN FlipSlashes(s) ELSE s
    IN  IF StartsWith(flipped, FILE2) /\ ~StartsWith(flipped, FILE3)
        THEN FILE3 \o Tail_(flipped, Len(FILE2) + 1)
        ELSE flipped

injectSystemVariables(in, entries) ==
    NormalizeSlashes(SubstituteEntries(in, entries, 1))

\* ------------------------------------------------------------ RegExp
\* The pattern language of new RegExp(source) that jsonPathToRegex can emit
\* (and that an expression can smuggle through it): alternatives of terms; a
\* term is an assertion (^ $) or an atom with an optional quantifier (* + ?,
\* optionally lazy); an atom is a character, an escape, ".", a class [...] or
\* a group ( ... ) / (?: ... ) / (?<name> ... ).  A parse yields [err, node,
\* pos]; err stands
\* for the SyntaxError thrown by the constructor.  "." matches every character
\* but a line terminator (no s flag); "$" and "^" are the ends of the input
\* (no m flag); a lone "]", "{" or "}" is an ordinary character.  Not
\* modelled, because no input of this model produces them: braced quantifiers,
\* ranges inside a class, look-arounds and back-references in the compiled
\* source.  test() is decided by sets of end positions, which is exact for
\* such patterns; exec() follows the backtracking order of the specification
\* (see MatchTerm) to find the captures.
Err == [err |-> TRUE, node |-> <<>>, pos |-> 0]
Ok(node, pos) == [err |-> FALSE, node |-> node, pos |-> pos]

Chr(c)  == [t |-> "cls", neg |-> FALSE, chars |-> {c}]
AnyChar == [t |-> "cls", neg |-> TRUE, chars |-> LineTerminators]
Quantifiers == {"*", "+", "?"}

\* the capturing groups of a source in the order of their "(": the position of
\* the "(" and the name of a named group (empty when it has none)
RECURSIVE NameEnd(_, _)
NameEnd(s, p) ==
    IF p > Len(s) THEN 0 ELSE IF s[p] = ">" THEN p ELSE NameEnd(s, p + 1)

IsNamedGroup(s, p) ==
    /\ MatchAt(s, p, <<"(", "?", "<">>)
    /\ p + 3 <= Len(s)
    /\ s[p + 3] \notin {"=", "!"}

RECURSIVE GroupOpens(_, _, _)
GroupOpens(s, p, inClass) ==
    IF p > Len(s) THEN <<>>
    ELSE LET escape == s[p] = BSL
             opens  == ~escape /\ ~inClass /\ s[p] = "("
             here   == IF opens /\ IsNamedGroup(s, p)
                       THEN <<[pos |-> p, name |-> SubSeq(s, p + 3, NameEnd(s, p + 3) - 1)]>>
                       ELSE IF opens /\ ~MatchAt(s, p, <<"(", "?">>)
                       THEN <<[pos |-> p, name |-> <<>>]>>
                       ELSE <<>>
             class  == IF escape THEN inClass
                       ELSE IF inClass THEN s[p] # "]" ELSE s[p] = "["
         IN  here \o GroupOpens(s, IF escape THEN p + 2 ELSE p + 1, class)

\* the number of the capturing group whose "(" stands at position p
GroupIndex(s, p) ==
    LET UpTo(opens) == Cardinality({k \in 1..Len(opens) : opens[k].pos <= p})
    IN  UpTo(GroupOpens(s, 1, FALSE))

\* the members of a class, from position p up to the closing "]"
RECURSIVE ParseClass(_, _, _, _)
ParseClass(s, p, neg, chars) ==
    IF p > Len(s) THEN Err
    ELSE IF s[p] = "]" THEN Ok([t |-> "cls", neg |-> neg, chars |-> chars], p + 1)
    ELSE IF s[p] = BSL
    THEN IF p + 1 > Len(s) THEN Err
         ELSE IF s[p + 1] = "d" THEN ParseClass(s, p + 2, neg, chars \cup Digits)
         ELSE IF s[p + 1] = "w" THEN ParseClass(s, p + 2, neg, chars \cup WordChars)
         ELSE ParseClass(s, p + 2, neg, chars \cup {s[p + 1]})
    ELSE ParseClass(s, p + 1, neg, chars \cup {s[p]})

\* an optional quantifier after the atom a
Quantified(s, a) ==
    IF a.err \/ a.pos > Len(s) \/ s[a.pos] \notin Quantifiers THEN a
    ELSE LET q    == s[a.pos]
             lazy == a.pos + 1 <= Len(s) /\ s[a.pos + 1] = "?"
             next == IF lazy THEN a.pos + 2 ELSE a.pos + 1
         IN  IF next <= Len(s) /\ s[next] \in Quantifiers THEN Err
             ELSE Ok([t |-> "rep", min |-> IF q = "+" THEN 1 ELSE 0,
                      inf |-> q # "?", lazy |-> lazy, x |-> a.node], next)

RECURSIVE ParseDisjunction(_, _)
RECURSIVE ParseAlternative(_, _, _)
RECURSIVE ParseTerm(_, _)

ParseTerm(s, p) ==
    LET c == s[p]
    IN  IF c \in {"^", "$"}
        THEN IF p + 1 <= Len(s) /\ s[p + 1] \in Quantifiers THEN Err
             ELSE Ok([t |-> IF c = "^" THEN "bol" ELSE "eol"], p + 1)
        ELSE IF c \in Quantifiers THEN Err
        ELSE IF c = "("
        THEN LET plain == MatchAt(s, p, <<"(", "?", ":">>)
                 named == IsNamedGroup(s, p)
                 start == IF plain THEN p + 3
                          ELSE IF named THEN NameEnd(s, p + 3) + 1
                          ELSE p + 1
                 Group(inner) ==
                    IF inner.err \/ inner.pos > Len(s) THEN Err
                    ELSE Quantified(s, Ok([t |-> "grp", alts |-> inner.node,
                                           cap |-> IF plain THEN 0 ELSE GroupIndex(s, p)],
                                          inner.pos + 1))
             IN  IF named /\ NameEnd(s, p + 3) <= p + 3 THEN Err
                 ELSE Group(ParseDisjunction(s, start))
        ELSE IF c = "["
        THEN IF p + 1 <= Len(s) /\ s[p + 1] = "^"
             THEN Quantified(s, ParseClass(s, p + 2, TRUE, {}))
             ELSE Quantified(s, ParseClass(s, p + 1, FALSE, {}))
        ELSE IF c = BSL
        THEN IF p + 1 > Len(s) THEN Err
             ELSE IF s[p + 1] = "d"
             THEN Quantified(s, Ok([t |-> "cls", neg |-> FALSE, chars |-> Digits], p + 2))
             ELSE IF s[p + 1] = "w"
             THEN Quantified(s, Ok([t |-> "cls", neg |-> FALSE, chars |-> WordChars], p + 2))
             ELSE Quantified(s, Ok(Chr(s[p + 1]), p + 2))
        ELSE IF c = "." THEN Quantified(s, Ok(AnyChar, p + 1))
        ELSE Quantified(s, Ok(Chr(c), p + 1))

\* terms up to "|", ")" or the end
ParseAlternative(s, p, acc) ==
    IF p > Len(s) \/ s[p] \in {"|", ")"} THEN Ok(acc, p)
    ELSE LET After(term) ==
                IF term.err THEN Err
                ELSE ParseAlternative(s, term.pos, Append(acc, term.node))
         IN  After(ParseTerm(s, p))

ParseDisjunction(s, p) ==
    LET Or(first, rest) ==
            IF rest.err THEN Err ELSE Ok(<<first.node>> \o rest.node, rest.pos)
        After(first) ==
            IF first.err THEN Err
            ELSE IF first.pos <= Len(s) /\ s[first.pos] = "|"
            THEN Or(first, ParseDisjunction(s, first.pos + 1))
            ELSE Ok(<<first.node>>, first.pos)
    IN  After(ParseAlternative(s, p, <<>>))

\* new RegExp(source): the whole source is one disjunction; a ")" left over is
\* an unmatched parenthesis
NewRegExp(source) ==
    LET Whole(d) ==
            IF d.err \/ d.pos <= Len(source) THEN Err
            ELSE [err |-> FALSE, node |-> d.node, pos |-> d.pos,
                  groups |-> GroupOpens(source, 1, FALSE)]
    IN  Whole(ParseDisjunction(source, 1))

\* The positions (characters consumed, 0..Len(s)) at which a match of the
\* term that starts at position i can end.
RECURSIVE EndsTerm(_, _, _)
RECURSIVE EndsSeq(_, _, _, _)
RECURSIVE EndsAlts(_, _, _)
RECURSIVE Closure(_, _, _, _)

EndsTerm(t, s, i) ==
    IF t.t = "cls"
    THEN IF i < Len(s) /\ ((s[i + 1] \in t.chars) # t.neg) THEN {i + 1} ELSE {}
    ELSE IF t.t = "bol" THEN (IF i = 0 THEN {i} ELSE {})
    ELSE IF t.t = "eol" THEN (IF i = Len(s) THEN {i} ELSE {})
    ELSE IF t.t = "grp" THEN EndsAlts(t.alts, s, i)
    ELSE LET once == EndsTerm(t.x, s, i)
             zero == IF t.min = 0 THEN {i} ELSE {}
         IN  IF t.inf THEN zero \cup Closure(t.x, s, once, once) ELSE zero \cup once

Closure(x, s, frontier, seen) ==
    IF frontier = {} THEN seen
    ELSE LET next == UNION {EndsTerm(x, s, j) : j \in frontier} \ seen
         IN  Closure(x, s, next, seen \cup next)

EndsSeq(terms, k, s, from) ==
    IF k > Len(terms) \/ from = {} THEN from
    ELSE EndsSeq(terms, k + 1, s, UNION {EndsTerm(terms[k], s, j) : j \in from})

EndsAlts(alts, s, i) ==
    UNION {EndsSeq(alts[a], 1, s, {i}) : a \in 1..Len(alts)}

\* RegExp.prototype.test without the g flag: a match starting anywhere
RegExpTest(re, s) == \E i \in 0..Len(s) : EndsAlts(re, s, i) # {}

\* exec(): the backtracking matcher.  A match state is [pos, caps]: the
\* characters consumed and the captures so far, each [def, text], def FALSE
\* for a group that took no part.  Each operator yields the match states it can
\* end in, in the order in which backtracking tries them: the alternatives
\* from left to right, a greedy quantifier one more repetition before
\* stopping, a lazy one stopping first; the head of the list is the match.
Undefined      == [def |-> FALSE, text |-> <<>>]
Captured(text) == [def |-> TRUE, text |-> text]

RECURSIVE MatchTerm(_, _, _)
RECURSIVE MatchRep(_, _, _, _)
RECURSIVE Iterate(_, _, _, _, _, _)
RECURSIVE MatchSeq(_, _, _, _)
RECURSIVE Continue(_, _, _, _, _)
RECURSIVE MatchAlts(_, _, _, _)

MatchTerm(t, s, st) ==
    IF t.t = "cls"
    THEN IF st.pos < Len(s) /\ ((s[st.pos + 1] \in t.chars) # t.neg)
         THEN <<[pos |-> st.pos + 1, caps |-> st.caps]>> ELSE <<>>
    ELSE IF t.t = "bol" THEN (IF st.pos = 0 THEN <<st>> ELSE <<>>)
    ELSE IF t.t = "eol" THEN (IF st.pos = Len(s) THEN <<st>> ELSE <<>>)
    ELSE IF t.t = "grp"
    THEN LET Capture(rs) ==
                IF t.cap = 0 THEN rs
                ELSE [j \in 1..Len(rs) |->
                        [pos  |-> rs[j].pos,
                         caps |-> [rs[j].caps EXCEPT
                                    ![t.cap] = Captured(SubSeq(s, st.pos + 1, rs[j].pos))]]]
         IN  Capture(MatchAlts(t.alts, 1, s, st))
    ELSE MatchRep(t, s, st, t.min)

\* need: the repetitions still required; a repetition that consumes nothing
\* is not taken once none is required
MatchRep(t, s, st, need) ==
    LET stop == IF need = 0 THEN <<st>> ELSE <<>>
        Ordered(more) == IF t.lazy THEN stop \o more ELSE more \o stop
    IN  Ordered(Iterate(MatchTerm(t.x, s, st), 1, t, s, st, need))

Iterate(rs, j, t, s, st, need) ==
    IF j > Len(rs) THEN <<>>
    ELSE (IF need = 0 /\ rs[j].pos = st.pos THEN <<>>
          ELSE IF t.inf THEN MatchRep(t, s, rs[j], IF need > 0 THEN need - 1 ELSE 0)
          ELSE <<rs[j]>>)
            \o Iterate(rs, j + 1, t, s, st, need)

MatchSeq(terms, k, s, st) ==
    IF k > Len(terms) THEN <<st>>
    ELSE Continue(MatchTerm(terms[k], s, st), 1, terms, k + 1, s)

Continue(rs, j, terms, k, s) ==
    IF j > Len(rs) THEN <<>>
    ELSE MatchSeq(terms, k, s, rs[j]) \o Continue(rs, j + 1, terms, k, s)

MatchAlts(alts, a, s, st) ==
    IF a > Len(alts) THEN <<>>
    ELSE MatchSeq(alts[a], 1, s, st) \o MatchAlts(alts, a + 1, s, st)

\* RegExp.prototype.exec from lastIndex (0-based): the first start position
\* with a match; [found, index, end, caps]
NoExec == [found |-> FALSE, index |-> 0, end |-> 0, caps |-> <<>>]

RECURSIVE RegExpExec(_, _, _)
RegExpExec(re, s, lastIndex) ==
    IF lastIndex > Len(s) THEN NoExec
    ELSE LET First(rs) ==
                IF rs # <<>>
                THEN [found |-> TRUE, index |-> lastIndex, end |-> rs[1].pos,
                      caps |-> rs[1].caps]
                ELSE RegExpExec(re, s, lastIndex + 1)
         IN  First(MatchAlts(re.node, 1, s,
                             [pos |-> lastIndex,
                              caps |-> [k \in 1..Len(re.groups) |-> Undefined]]))

\* every match of a regular expression with the g flag, as
\* String.prototype.replace collects them: after an empty match the search
\* goes on one character further
RECURSIVE MatchAll(_, _, _)
MatchAll(re, s, lastIndex) ==
    LET Collect(m) ==
            IF ~m.found THEN <<>>
            ELSE <<m>> \o MatchAll(re, s, IF m.end = m.index THEN m.end + 1 ELSE m.end)
    IN  Collect(RegExpExec(re, s, lastIndex))

\* the texts of the captures of a match, an unmatched one being empty
CaptureTexts(m) == [k \in 1..Len(m.caps) |-> m.caps[k].text]

\* the result of replace: the text between the matches and, for the k-th
\* match, the text repls[k]
RECURSIVE Assemble(_, _, _, _, _)
Assemble(s, ms, k, next, repls) ==
    IF k > Len(ms) THEN Tail_(s, next + 1)
    ELSE SubSeq(s, next + 1, ms[k].index) \o repls[k]
            \o Assemble(s, ms, k + 1, ms[k].end, repls)

\* s.replace(re, repl) for a regular expression with the g flag and a
\* replacement STRING
ReplaceRegExp(s, re, repl) ==
    LET Replaced(ms) ==
            Assemble(s, ms, 1, 0,
                     [k \in 1..Len(ms) |->
                        GetSubstitution(repl, 1, SubSeq(s, ms[k].index + 1, ms[k].end),
                                        SubSeq(s, 1, ms[k].index), Tail_(s, ms[k].end + 1),
                                        CaptureTexts(ms[k]))])
    IN  Replaced(MatchAll(re, s, 0))

\* ------------------------------------------------------------ pathMatcher.ts
\* the characters that /[\\\[\](){}?+*^$|]/g escapes
MetaChars == {BSL, "[", "]", "(", ")", "{", "}", "?", "+", "*", "^", "$", "|"}

RECURSIVE EscapeMeta(_)
EscapeMeta(s) ==
    IF Len(s) = 0 THEN <<>>
    ELSE (IF s[1] \in MetaChars THEN <<BSL, s[1]>> ELSE <<s[1]>>) \o EscapeMeta(Tail(s))

\* ((?:(?!\1)[^]|\\.)+)\1\] from position p, n units matched so far: the
\* position of the closing quote the backtracking matcher settles on (a
\* further non-quote character first, then a backslash pair, then stopping),
\* or 0 when there is no match
RECURSIVE KeyEnd(_, _, _, _)
KeyEnd(s, p, quote, n) ==
    LET viaChar == IF p <= Len(s) /\ s[p] # quote
                   THEN KeyEnd(s, p + 1, quote, n + 1) ELSE 0
        viaEsc  == IF p + 1 <= Len(s) /\ s[p] = BSL /\ s[p + 1] \notin LineTerminators
                   THEN KeyEnd(s, p + 2, quote, n + 1) ELSE 0
        stop    == IF n >= 1 /\ MatchAt(s, p, <<quote, "]">>) THEN p ELSE 0
    IN  IF viaChar # 0 THEN viaChar
        ELSE IF viaEsc # 0 THEN viaEsc
        ELSE stop

\* the replacer callback of step 4
QuotedKeyReplacer(quote, keyContent) ==
    LET rawKey  == ReplaceAll(keyContent, <<BSL, quote>>, <<quote>>)
        dotted  == ReplaceAll(rawKey, <<".">>, <<DOT_LITERAL>>)
        safeKey == EscapeMeta(dotted)
    IN  <<SEP>> \o safeKey

\* step 4: pattern.replace(/\[(['"])((?:(?!\1)[^]|\\.)+)\1\]/g, replacer)
RECURSIVE ReplaceQuotedKeys(_, _)
ReplaceQuotedKeys(s, i) ==
    IF i > Len(s) THEN <<>>
    ELSE LET e == IF s[i] = "[" /\ i + 1 <= Len(s) /\ s[i + 1] \in {SQ, DQ}
                  THEN KeyEnd(s, i + 2, s[i + 1], 0) ELSE 0
         IN  IF e # 0
             THEN QuotedKeyReplacer(s[i + 1], SubSeq(s, i + 2, e - 1))
                    \o ReplaceQuotedKeys(s, e + 2)
             ELSE <<s[i]>> \o ReplaceQuotedKeys(s, i + 1)

\* the end of the digit run that starts at p
RECURSIVE DigitsEnd(_, _)
DigitsEnd(s, p) ==
    IF p <= Len(s) /\ s[p] \in Digits THEN DigitsEnd(s, p + 1) ELSE p

\* step 5: pattern.replace(/\[(\d+)\]/g, '\x00$1')
RECURSIVE ReplaceNumericIndices(_, _)
ReplaceNumericIndices(s, i) ==
    IF i > Len(s) THEN <<>>
    ELSE LET e == IF s[i] = "[" THEN DigitsEnd(s, i + 1) ELSE i
         IN  IF s[i] = "[" /\ e > i + 1 /\ e <= Len(s) /\ s[e] = "]"
             THEN GetSubstitution(<<SEP, "$", "1">>, 1, SubSeq(s, i, e),
                                  SubSeq(s, 1, i - 1), Tail_(s, e + 1),
                                  <<SubSeq(s, i + 1, e - 1)>>)
                    \o ReplaceNumericIndices(s, e + 1)
             ELSE <<s[i]>> \o ReplaceNumericIndices(s, i + 1)

RecursiveExpansion == <<"(", "?", ":", ".", "*", SEP, ")", "?">>

\* the rewrite passes with a bare "*" rewritten to one or more characters of
\* any kind, the separator included
RewritePassesSpanning(expr) ==
    LET trimmed == Trim(expr)
        s1  == IF StartsWith(trimmed, <<"$">>) THEN Tail(trimmed) ELSE trimmed
        s2  == ReplaceAll(s1, <<".", ".">>, <<RECURSIVE_TOKEN>>)
        s3  == IF StartsWith(s2, <<".">>) THEN Tail(s2) ELSE s2
        s4  == ReplaceQuotedKeys(s3, 1)
        s5  == ReplaceNumericIndices(s4, 1)
        s6  == ReplaceAll(s5, <<"[", "*", "]">>, <<SEP, BSL, "d", "+">>)
        s7  == ReplaceAll(s6, <<"*">>, <<"[", "^", "]", "+">>)
        s8  == ReplaceAll(s7, <<".">>, <<SEP>>)
        s9  == ReplaceAll(s8, <<RECURSIVE_TOKEN, SEP>>, <<RECURSIVE_TOKEN>>)
        s9b == ReplaceAll(s9, <<RECURSIVE_TOKEN>>, RecursiveExpansion)
    IN  ReplaceAll(s9b, <<DOT_LITERAL>>, <<BSL, ".">>)

\* steps 1-10: the source text handed to new RegExp, without the anchors
RewritePasses(expr) ==
    LET trimmed == Trim(expr)
        s1  == IF StartsWith(trimmed, <<"$">>) THEN Tail(trimmed) ELSE trimmed
        s2  == ReplaceAll(s1, <<".", ".">>, <<RECURSIVE_TOKEN>>)
        s3  == IF StartsWith(s2, <<".">>) THEN Tail(s2) ELSE s2
        s4  == ReplaceQuotedKeys(s3, 1)
        s5  == ReplaceNumericIndices(s4, 1)
        s6  == ReplaceAll(s5, <<"[", "*", "]">>, <<SEP, BSL, "d", "+">>)
        s7  == ReplaceAll(s6, <<"*">>, <<"[", "^", SEP, "]", "+">>)
        s8  == ReplaceAll(s7, <<".">>, <<SEP>>)
        s9  == ReplaceAll(s8, <<RECURSIVE_TOKEN, SEP>>, <<RECURSIVE_TOKEN>>)
        s9b == ReplaceAll(s9, <<RECURSIVE_TOKEN>>, RecursiveExpansion)
    IN  ReplaceAll(s9b, <<DOT_LITERAL>>, <<BSL, ".">>)

\* jsonPathToRegex without the closing "$" of step 11
jsonPathToRegexOpenEnd(expr) ==
    LET pattern == RewritePasses(expr)
    IN  IF StartsWith(pattern, <<SEP>>)
        THEN NewRegExp(<<"^">> \o pattern)
        ELSE NewRegExp(<<"^", SEP>> \o pattern)

\* jsonPathToRegex that prepends the separator whatever the pattern starts with
jsonPathToRegexTwoSeps(expr) ==
    NewRegExp(<<"^", SEP>> \o RewritePasses(expr) \o <<"$">>)

\* step 11 and the constructor
jsonPathToRegex(expr) ==
    LET Anchored(pattern) ==
            IF StartsWith(pattern, <<SEP>>) THEN <<"^">> \o pattern \o <<"$">>
            ELSE <<"^", SEP>> \o pattern \o <<"$">>
    IN  NewRegExp(Anchored(RewritePasses(expr)))

\* the encoded breadcrumb: '\x00' + currentPath.join('\x00')
PathString(crumb) == <<SEP>> \o Join(crumb, <<SEP>>)

\* matchesPath: [threw, value]; threw is the SyntaxError of new RegExp, which
\* matchesPath does not catch
matchesPath(expr, crumb) ==
    LET Test(regex) ==
            IF regex.err THEN [threw |-> TRUE, value |-> FALSE]
            ELSE [threw |-> FALSE, value |-> RegExpTest(regex.node, PathString(crumb))]
    IN  Test(jsonPathToRegex(expr))

\* ------------------------------------------------------------ createLink
\* JavaScript values that a group lookup can yield: a string, undefined, or a
\* function inherited from Object.prototype (text: the function's name)
Str(text) == [kind |-> "string", text |-> text]
Undef     == [kind |-> "undefined", text |-> <<>>]
Fn(name)  == [kind |-> "function", text |-> name]

\* String(value)
StringOf(v) ==
    IF v.kind = "string" THEN v.text
    ELSE IF v.kind = "undefined" THEN <<"u", "n", "d", "e", "f", "i", "n", "e", "d">>
    ELSE <<"f", "u", "n", "c", "t", "i", "o", "n", " ">> \o v.text
            \o <<"(", ")", " ", "{", " ", "[", "n", "a", "t", "i", "v", "e", " ",
                 "c", "o", "d", "e", "]", " ", "}">>

\* properties that the object literal { ...match.groups } inherits from
\* Object.prototype (those with a name that \w+ can spell; __proto__ and the
\* legacy accessors are left out)
CONSTRUCTOR == <<"c", "o", "n", "s", "t", "r", "u", "c", "t", "o", "r">>
TO_STRING   == <<"t", "o", "S", "t", "r", "i", "n", "g">>
VALUE_OF    == <<"v", "a", "l", "u", "e", "O", "f">>
HAS_OWN     == <<"h", "a", "s", "O", "w", "n", "P", "r", "o", "p", "e", "r", "t", "y">>
ObjectPrototype ==
    <<[name |-> CONSTRUCTOR, val |-> Fn(<<"O", "b", "j", "e", "c", "t">>)],
      [name |-> TO_STRING,   val |-> Fn(TO_STRING)],
      [name |-> VALUE_OF,    val |-> Fn(VALUE_OF)],
      [name |-> HAS_OWN,     val |-> Fn(HAS_OWN)]>>

\* obj[key] for an object given by its own properties, a sequence of [name, val]
Get(obj, key) ==
    IF \E k \in 1..Len(obj) : obj[k].name = key
    THEN obj[CHOOSE k \in 1..Len(obj) : obj[k].name = key].val
    ELSE IF \E k \in 1..Len(ObjectPrototype) : ObjectPrototype[k].name = key
    THEN ObjectPrototype[CHOOSE k \in 1..Len(ObjectPrototype) :
                            ObjectPrototype[k].name = key].val
    ELSE Undef

\* obj[key] = val
Set(obj, key, val) ==
    IF \E k \in 1..Len(obj) : obj[k].name = key
    THEN [k \in 1..Len(obj) |-> IF obj[k].name = key THEN [name |-> key, val |-> val]
                                ELSE obj[k]]
    ELSE Append(obj, [name |-> key, val |-> val])

\* arr[idx] for an array given as a sequence (element 0 first)
ArrayGet(arr, idx) == IF idx \in 0..(Len(arr) - 1) THEN arr[idx + 1] ELSE Undef

ToLowerChar(c) ==
    IF \E i \in 1..26 : UpperCase[i] = c
    THEN LowerCase[CHOOSE i \in 1..26 : UpperCase[i] = c] ELSE c
ToUpperChar(c) ==
    IF \E i \in 1..26 : LowerCase[i] = c
    THEN UpperCase[CHOOSE i \in 1..26 : LowerCase[i] = c] ELSE c
ToLowerCase(s) == [i \in 1..Len(s) |-> ToLowerChar(s[i])]
ToUpperCase(s) == [i \in 1..Len(s) |-> ToUpperChar(s[i])]

\* parseInt(s): blanks, a sign, then the longest run of decimal digits, or of
\* hexadecimal digits after "0x"; [nan, val]
HexDigits ==
    <<"0", "1", "2", "3", "4", "5", "6", "7", "8", "9", "a", "b", "c", "d", "e", "f">>
IsHexDigit(c) == \E i \in 1..16 : HexDigits[i] = ToLowerChar(c)
HexValue(c)   == (CHOOSE i \in 1..16 : HexDigits[i] = ToLowerChar(c)) - 1

RECURSIVE Numeral(_, _, _, _, _)
Numeral(s, p, radix, acc, any) ==
    IF p <= Len(s) /\ IsHexDigit(s[p]) /\ HexValue(s[p]) < radix
    THEN Numeral(s, p + 1, radix, acc * radix + HexValue(s[p]), TRUE)
    ELSE [nan |-> ~any, val |-> acc]

ParseInt(str) ==
    LET Signed(negative, n) ==
            [nan |-> n.nan, val |-> IF negative THEN 0 - n.val ELSE n.val]
        Number(u) ==
            IF StartsWith(u, <<"0", "x">>) \/ StartsWith(u, <<"0", "X">>)
            THEN Numeral(u, 3, 16, 0, FALSE) ELSE Numeral(u, 1, 10, 0, FALSE)
        Trimmed(t) ==
            Signed(StartsWith(t, <<"-">>),
                   Number(IF StartsWith(t, <<"-">>) \/ StartsWith(t, <<"+">>)
                          THEN Tail(t) ELSE t))
    IN  Trimmed(TrimStart(str))

\* encodeURIComponent and decodeURIComponent over the printable ASCII
\* characters (code 32 + position - 1) and the line feed
Ascii ==
    <<" ", "!", DQ, "#", "$", "%", "&", SQ, "(", ")", "*", "+",
      ",", "-", ".", "/", "0", "1", "2", "3", "4", "5", "6", "7",
      "8", "9", ":", ";", "<", "=", ">", "?", "@", "A", "B", "C",
      "D", "E", "F", "G", "H", "I", "J", "K", "L", "M", "N", "O",
      "P", "Q", "R", "S", "T", "U", "V", "W", "X", "Y", "Z", "[",
      BSL, "]", "^", "_", BQ, "a", "b", "c", "d", "e", "f", "g",
      "h", "i", "j", "k", "l", "m", "n", "o", "p", "q", "r", "s",
      "t", "u", "v", "w", "x", "y", "z", "{", "|", "}", "~">>
Unreserved == Letters \cup Digits \cup {"-", "_", ".", "!", "~", "*", SQ, "(", ")"}
CharCode(c) == IF c = LF THEN 10 ELSE 31 + (CHOOSE i \in 1..Len(Ascii) : Ascii[i] = c)
UpperHex(n) == ToUpperChar(HexDigits[n + 1])

RECURSIVE EncodeURIComponent(_)
EncodeURIComponent(s) ==
    IF Len(s) = 0 THEN <<>>
    ELSE (IF s[1] \in Unreserved THEN <<s[1]>>
          ELSE <<"%", UpperHex(CharCode(s[1]) \div 16), UpperHex(CharCode(s[1]) % 16)>>)
            \o EncodeURIComponent(Tail(s))

\* [threw, text]: a "%" without two hexadecimal digits, or with a code that is
\* not a character by itself (128 and above), is a URIError
RECURSIVE DecodeURIComponent(_)
DecodeURIComponent(s) ==
    IF Len(s) = 0 THEN [threw |-> FALSE, text |-> <<>>]
    ELSE IF s[1] # "%"
    THEN LET rest == DecodeURIComponent(Tail(s))
         IN  [threw |-> rest.threw, text |-> <<s[1]>> \o rest.text]
    ELSE IF Len(s) < 3 \/ ~IsHexDigit(s[2]) \/ ~IsHexDigit(s[3])
    THEN [threw |-> TRUE, text |-> <<>>]
    ELSE LET code == 16 * HexValue(s[2]) + HexValue(s[3])
             rest == DecodeURIComponent(Tail_(s, 4))
         IN  IF code = 10 THEN [threw |-> rest.threw, text |-> <<LF>> \o rest.text]
             ELSE IF code \in 32..126
             THEN [threw |-> rest.threw, text |-> <<Ascii[code - 31]>> \o rest.text]
             ELSE [threw |-> TRUE, text |-> <<>>]

\* names of the rule file
ALL           == <<"a", "l", "l">>
URL_ENCODE    == <<"u", "r", "l", "E", "n", "c", "o", "d", "e">>
URL_DECODE    == <<"u", "r", "l", "D", "e", "c", "o", "d", "e">>
TO_UPPER_CASE == <<"t", "o", "U", "p", "p", "e", "r", "C", "a", "s", "e">>
TO_LOWER_CASE == <<"t", "o", "L", "o", "w", "e", "r", "C", "a", "s", "e">>
TRIM          == <<"t", "r", "i", "m">>
DefaultCapture == <<"^", "(", ".", "*", ")", "$">>
OpenLink       == <<"O", "p", "e", "n", " ", "L", "i", "n", "k">>

\* a transform t is [kind, command, search, replace, applyTo]; kind is
\* "command" when t has the property command, else "regex"; an absent
\* applyTo is the empty text (both are falsy)

\* updateGroup (lines 28-42): [threw, val]
Returned(val) == [threw |-> FALSE, val |-> val]
Thrown        == [threw |-> TRUE, val |-> Undef]

updateGroup(t, val) ==
    IF t.kind = "command"
    THEN IF t.command = URL_ENCODE THEN Returned(Str(EncodeURIComponent(StringOf(val))))
         ELSE IF t.command = URL_DECODE
         THEN LET Decoded(d) == IF d.threw THEN Thrown ELSE Returned(Str(d.text))
              IN  Decoded(DecodeURIComponent(StringOf(val)))
         ELSE IF t.command \in {TO_UPPER_CASE, TO_LOWER_CASE, TRIM}
         THEN IF val.kind # "string" THEN Thrown
              ELSE IF t.command = TO_UPPER_CASE THEN Returned(Str(ToUpperCase(val.text)))
              ELSE IF t.command = TO_LOWER_CASE THEN Returned(Str(ToLowerCase(val.text)))
              ELSE Returned(Str(Trim(val.text)))
         ELSE Returned(val)
    ELSE LET Replace(searchRegex) ==
                IF searchRegex.err \/ val.kind # "string" THEN Thrown
                ELSE Returned(Str(ReplaceRegExp(val.text, searchRegex, t.replace)))
         IN  Replace(NewRegExp(t.search))

\* the loop of lines 18-55 taking the transforms from the last to the first
RECURSIVE ApplyTransformsReversed(_, _, _, _)
ApplyTransformsReversed(ts, k, groups, named) ==
    IF k > Len(ts) THEN [threw |-> FALSE, groups |-> groups, named |-> named]
    ELSE LET t       == ts[Len(ts) + 1 - k]
             applyTo == IF t.applyTo = <<>> THEN ALL ELSE t.applyTo
             key     == IF StartsWith(applyTo, <<"$">>) THEN Tail(applyTo) ELSE applyTo
             Failed  == [threw |-> TRUE, groups |-> groups, named |-> named]
             Named(u) ==
                IF u.threw THEN Failed
                ELSE ApplyTransformsReversed(ts, k + 1, groups, Set(named, key, u.val))
             Positional(i, u) ==
                IF u.threw THEN Failed
                ELSE ApplyTransformsReversed(ts, k + 1, [groups EXCEPT ![i + 1] = u.val], named)
             Indexed(idx) ==
                IF ~idx.nan /\ ArrayGet(groups, idx.val).kind # "undefined"
                THEN Positional(idx.val, updateGroup(t, ArrayGet(groups, idx.val)))
                ELSE ApplyTransformsReversed(ts, k + 1, groups, named)
         IN  IF applyTo = ALL /\ t.kind # "command"
             THEN ApplyTransformsReversed(ts, k + 1, groups, named)
             ELSE IF Get(named, key).kind # "undefined"
             THEN Named(updateGroup(t, Get(named, key)))
             ELSE Indexed(ParseInt(key))

\* the loop of lines 18-55 from its k-th transform on:
\* [threw, groups, named]
RECURSIVE ApplyTransforms(_, _, _, _)
ApplyTransforms(ts, k, groups, named) ==
    IF k > Len(ts) THEN [threw |-> FALSE, groups |-> groups, named |-> named]
    ELSE LET t       == ts[k]
             applyTo == IF t.applyTo = <<>> THEN ALL ELSE t.applyTo
             key     == IF StartsWith(applyTo, <<"$">>) THEN Tail(applyTo) ELSE applyTo
             Failed  == [threw |-> TRUE, groups |-> groups, named |-> named]
             Named(u) ==
                IF u.threw THEN Failed
                ELSE ApplyTransforms(ts, k + 1, groups, Set(named, key, u.val))
             Positional(i, u) ==
                IF u.threw THEN Failed
                ELSE ApplyTransforms(ts, k + 1, [groups EXCEPT ![i + 1] = u.val], named)
             Indexed(idx) ==
                IF ~idx.nan /\ ArrayGet(groups, idx.val).kind # "undefined"
                THEN Positional(idx.val, updateGroup(t, ArrayGet(groups, idx.val)))
                ELSE ApplyTransforms(ts, k + 1, groups, named)
         IN  IF applyTo = ALL /\ t.kind # "command"
             THEN ApplyTransforms(ts, k + 1, groups, named)
             ELSE IF Get(named, key).kind # "undefined"
             THEN Named(updateGroup(t, Get(named, key)))
             ELSE Indexed(ParseInt(key))

\* the replacer callback (lines 62-71); its result is inserted as it is
Replacer(placeholder, name, groups, named) ==
    LET Indexed(idx) ==
            IF ~idx.nan /\ ArrayGet(groups, idx.val).kind # "undefined"
            THEN StringOf(ArrayGet(groups, idx.val))
            ELSE placeholder
    IN  IF Get(named, name).kind # "undefined" THEN StringOf(Get(named, name))
        ELSE Indexed(ParseInt(name))

\* /\$(\w+)/g
replacementRegex == NewRegExp(<<BSL, "$", "(", BSL, "w", "+", ")">>)

\* template.replace(replacementRegex, replacer)
ReplacePlaceholders(template, groups, named) ==
    LET Filled(ms) ==
            Assemble(template, ms, 1, 0,
                     [k \in 1..Len(ms) |->
                        Replacer(SubSeq(template, ms[k].index + 1, ms[k].end),
                                 ms[k].caps[1].text, groups, named)])
    IN  Filled(MatchAll(replacementRegex, template, 0))

\* the final pass (lines 78-86) from its k-th transform on, on the target only
RECURSIVE FinalPassTargetOnly(_, _, _, _)
FinalPassTargetOnly(ts, k, target, tooltip) ==
    IF k > Len(ts) THEN [threw |-> FALSE, target |-> target, tooltip |-> tooltip]
    ELSE IF ts[k].kind # "command" /\ (ts[k].applyTo = ALL \/ ts[k].applyTo = <<>>)
    THEN LET Replace(searchRegex) ==
                IF searchRegex.err
                THEN [threw |-> TRUE, target |-> target, tooltip |-> tooltip]
                ELSE FinalPassTargetOnly(ts, k + 1,
                            ReplaceRegExp(target, searchRegex, ts[k].replace),
                            tooltip)
         IN  Replace(NewRegExp(ts[k].search))
    ELSE FinalPassTargetOnly(ts, k + 1, target, tooltip)

\* the final pass (lines 78-86) from its k-th transform on:
\* [threw, target, tooltip]
RECURSIVE FinalPass(_, _, _, _)
FinalPass(ts, k, target, tooltip) ==
    IF k > Len(ts) THEN [threw |-> FALSE, target |-> target, tooltip |-> tooltip]
    ELSE IF ts[k].kind # "command" /\ (ts[k].applyTo = ALL \/ ts[k].applyTo = <<>>)
    THEN LET Replace(searchRegex) ==
                IF searchRegex.err
                THEN [threw |-> TRUE, target |-> target, tooltip |-> tooltip]
                ELSE FinalPass(ts, k + 1,
                            ReplaceRegExp(target, searchRegex, ts[k].replace),
                            ReplaceRegExp(tooltip, searchRegex, ts[k].replace))
         IN  Replace(NewRegExp(ts[k].search))
    ELSE FinalPass(ts, k + 1, target, tooltip)

\* [...match] and { ...match.groups }
GroupsOf(value, m) ==
    <<Str(SubSeq(value, m.index + 1, m.end))>>
        \o [k \in 1..Len(m.caps) |-> IF m.caps[k].def THEN Str(m.caps[k].text) ELSE Undef]

NamedGroupsOf(regex, m) ==
    LET all == [k \in 1..Len(regex.groups) |->
                  [name |-> regex.groups[k].name,
                   val  |-> IF m.caps[k].def THEN Str(m.caps[k].text) ELSE Undef]]
        IsNamed(e) == e.name # <<>>
    IN  SelectSeq(all, IsNamed)

\* the returned LinkDetails, or null
Null == [null |-> TRUE, target |-> <<>>, tooltip |-> <<>>]
LinkDetails(target, tooltip) == [null |-> FALSE, target |-> target, tooltip |-> tooltip]

\* createLink with the tokens of the templates looked up among the positional
\* groups only
createLinkPositionalOnly(matchedValue_, rule_) ==
    LET pattern == rule_.linkPattern
        Finished(final) ==
            IF final.threw THEN Null ELSE LinkDetails(final.target, final.tooltip)
        Transformed(done) ==
            IF done.threw THEN Null
            ELSE Finished(FinalPass(
                    pattern.transforms, 1,
                    ReplacePlaceholders(pattern.target, done.groups, <<>>),
                    ReplacePlaceholders(IF pattern.text = <<>> THEN OpenLink
                                        ELSE pattern.text, done.groups, <<>>)))
        Matched(regex, match) ==
            IF ~match.found THEN Null
            ELSE Transformed(ApplyTransforms(pattern.transforms, 1,
                                             GroupsOf(matchedValue_, match),
                                             NamedGroupsOf(regex, match)))
        Compiled(regex) ==
            IF regex.err THEN Null
            ELSE Matched(regex, RegExpExec(regex, matchedValue_, 0))
    IN  Compiled(NewRegExp(IF pattern.capture = <<>> THEN DefaultCapture
                           ELSE pattern.capture))

\* createLink(matchedValue, rule): a thrown error is caught and logged, and
\* null is returned
createLink(matchedValue_, rule_) ==
    LET pattern == rule_.linkPattern
        Finished(final) ==
            IF final.threw THEN Null ELSE LinkDetails(final.target, final.tooltip)
        Transformed(done) ==
            IF done.threw THEN Null
            ELSE Finished(FinalPass(
                    pattern.transforms, 1,
                    ReplacePlaceholders(pattern.target, done.groups, done.named),
                    ReplacePlaceholders(IF pattern.text = <<>> THEN OpenLink
                                        ELSE pattern.text, done.groups, done.named)))
        Matched(regex, match) ==
            IF ~match.found THEN Null
            ELSE Transformed(ApplyTransforms(pattern.transforms, 1,
                                             GroupsOf(matchedValue_, match),
                                             NamedGroupsOf(regex, match)))
        Compiled(regex) ==
            IF regex.err THEN Null
            ELSE Matched(regex, RegExpExec(regex, matchedValue_, 0))
    IN  Compiled(NewRegExp(IF pattern.capture = <<>> THEN DefaultCapture
                           ELSE pattern.capture))

\* ------------------------------------------------------------ extension.ts
\* A RegExp object: the compiled pattern, the g flag and lastIndex.
\* jsonPathToRegex constructs its RegExp without flags.
RegExpObjectGlobal(re, global) == [re |-> re, global |-> TRUE, lastIndex |-> 0]
RegExpObject(re, global) == [re |-> re, global |-> global, lastIndex |-> 0]

\* RegExp.prototype.test: [value, rx].  With the g flag the search starts at
\* lastIndex and moves it to the end of the match, or back to 0 when there is
\* none; without it lastIndex is neither read nor written.
Test(rx, s) ==
    IF rx.global
    THEN LET Moved(m) ==
                [value |-> m.found,
                 rx    |-> [rx EXCEPT !.lastIndex = IF m.found THEN m.end ELSE 0]]
         IN  Moved(RegExpExec(rx.re, s, rx.lastIndex))
    ELSE [value |-> RegExpTest(rx.re.node, s), rx |-> rx]

\* regexCache (line 14): a Map from expression text to RegExp object
EmptyCache == <<>>
\* what Map.prototype.get returns for a key the map does not hold
Absent == [re |-> <<>>, global |-> FALSE, lastIndex |-> -1]
IsAbsent(rx) == rx.lastIndex < 0
CacheGetOther(cache, path) ==
    IF DOMAIN cache \ {path} # {} THEN cache[CHOOSE q \in DOMAIN cache \ {path} : TRUE]
    ELSE IF path \in DOMAIN cache THEN cache[path] ELSE Absent
CacheGet(cache, path) == IF path \in DOMAIN cache THEN cache[path] ELSE Absent
CacheSet(cache, path, rx) ==
    [q \in DOMAIN cache \cup {path} |-> IF q = path THEN rx ELSE cache[q]]

\* lines 99-103: the matcher of an expression is taken from the cache, or
\* compiled and stored when the cache has none; [threw, cache, rx], threw for
\* the SyntaxError of jsonPathToRegex
GetOrCompile(cache, path) ==
    LET Fresh(rx) == [threw |-> FALSE, cache |-> CacheSet(cache, path, rx), rx |-> rx]
        Stored(regex) ==
            IF regex.err THEN [threw |-> TRUE, cache |-> cache, rx |-> Absent]
            ELSE Fresh(RegExpObject(regex, FALSE))
        Got(rx) ==
            IF IsAbsent(rx) THEN Stored(jsonPathToRegex(path))
            ELSE [threw |-> FALSE, cache |-> cache, rx |-> rx]
    IN  Got(CacheGet(cache, path))

\* buildSystemVariableMap (lines 216-239); of its entries the templates of
\* this model refer to "file" only
FILE == <<"f", "i", "l", "e">>
buildSystemVariableMap(doc) == <<[key |-> FILE, val |-> doc.fsPath]>>

\* a rule of the settings: jsonPath is one expression or an array of them
\* (line 94); an absent jsonPathValuePattern is the empty text
PathsOf(rule_) == IF rule_.jsonPathIsArray THEN rule_.jsonPath ELSE <<rule_.jsonPath>>

\* the DocumentLink of lines 123-128 for the i-th scalar node
DocumentLink(i, details, vars_) ==
    [node    |-> i,
     target  |-> injectSystemVariables(details.target, vars_),
     tooltip |-> details.tooltip]

\* "for (const path of paths)" (lines 97-137) from the j-th path on, for one
\* scalar node [path, value, isString]: [threw, found, links, cache]; threw is
\* an exception that leaves the try block of line 92
\* a value filter that lets every value pass
ValueMatchesAny(valueRegex, value) == TRUE

\* lines 108-110: valueRegex.exec(String(node.value)) is not null
ValueMatches(valueRegex, value) == RegExpExec(valueRegex, value, 0).found

RECURSIVE TryPaths(_, _, _, _, _, _, _)
TryPaths(node, i, rule_, j, vars_, links, cache) ==
    LET Out(threw, found, ls, c) ==
            [threw |-> threw, found |-> found, links |-> ls, cache |-> c]
        Created(details, c) ==
            IF details.null THEN TryPaths(node, i, rule_, j + 1, vars_, links, c)
            ELSE Out(FALSE, TRUE, Append(links, DocumentLink(i, details, vars_)), c)
        Filtered(valueRegex, c) ==
            IF valueRegex.err THEN Out(TRUE, FALSE, links, c)
            ELSE IF ~ValueMatches(valueRegex, node.value)
            THEN TryPaths(node, i, rule_, j + 1, vars_, links, c)
            ELSE Created(createLink(node.value, rule_), c)
        Tested(t, c) ==
            IF ~(t.value /\ node.isString)
            THEN TryPaths(node, i, rule_, j + 1, vars_, links,
                          CacheSet(c, PathsOf(rule_)[j], t.rx))
            ELSE IF rule_.jsonPathValuePattern # <<>>
            THEN Filtered(NewRegExp(rule_.jsonPathValuePattern),
                          CacheSet(c, PathsOf(rule_)[j], t.rx))
            ELSE Created(createLink(node.value, rule_),
                         CacheSet(c, PathsOf(rule_)[j], t.rx))
        Got(got) ==
            IF got.threw THEN Out(TRUE, FALSE, links, got.cache)
            ELSE Tested(Test(got.rx, PathString(node.path)), got.cache)
    IN  IF j > Len(PathsOf(rule_)) THEN Out(FALSE, FALSE, links, cache)
        ELSE Got(GetOrCompile(cache, PathsOf(rule_)[j]))

\* "for (const rule of jsonPathRules)" (lines 91-143) from the k-th rule on:
\* an exception ends the rule (the catch of line 142), a link ends the loop
\* (line 140); [links, cache]
RECURSIVE VisitScalar(_, _, _, _, _, _, _)
VisitScalar(node, i, rules, k, vars_, links, cache) ==
    IF k > Len(rules) THEN [links |-> links, cache |-> cache]
    ELSE LET Tried(r) ==
                IF r.found THEN [links |-> r.links, cache |-> r.cache]
                ELSE VisitScalar(node, i, rules, k + 1, vars_, r.links, r.cache)
         IN  Tried(TryPaths(node, i, rules[k], 1, vars_, links, cache))

\* visit (lines 83-162) over the scalar nodes of the parsed document, in
\* document order, from the i-th on
RECURSIVE Visit(_, _, _, _, _, _)
Visit(nodes, i, rules, vars_, links, cache) ==
    IF i > Len(nodes) THEN [links |-> links, cache |-> cache]
    ELSE LET Visited(r) == Visit(nodes, i + 1, rules, vars_, r.links, r.cache)
         IN  Visited(VisitScalar(nodes[i], i, rules, 1, vars_, links, cache))

StructuredLanguages == {"yaml", "json", "jsonc"}

\* getLinks (lines 55-213) for rules without filePattern and textPattern (the
\* file filter lets every rule pass and the text strategy has no rule to
\* run): [links, cache]
getLinks(doc, rules, cache) ==
    LET HasJsonPath(r) == r.jsonPath # <<>>
        Structural(jsonPathRules) ==
            IF doc.languageId \in StructuredLanguages /\ Len(jsonPathRules) > 0
            THEN Visit(doc.nodes, 1, jsonPathRules, buildSystemVariableMap(doc),
                       <<>>, cache)
            ELSE [links |-> <<>>, cache |-> cache]
    IN  IF Len(rules) = 0 THEN [links |-> <<>>, cache |-> cache]
        ELSE Structural(SelectSeq(rules, HasJsonPath))

\* the text strategy (lines 170-210).  "!!r.textPattern" holds for every
\* array and for every string but the empty one; an absent textPattern is the
\* empty text
HasTextPattern(r) == r.textPatternIsArray \/ r.textPattern # <<>>
PatternsOf(rule_) == IF rule_.textPatternIsArray THEN rule_.textPattern ELSE <<rule_.textPattern>>

\* the DocumentLink of lines 198-203 for the match m of the scan
TextLink(m, details, vars_) ==
    [start   |-> m.index,
     end     |-> m.end,
     target  |-> injectSystemVariables(details.target, vars_),
     tooltip |-> details.tooltip]

\* ------------------------------------------------------------ inputs
\* expressions are written with these constructors
Root          == <<"$">>
Child(k)      == <<".">> \o k
Descent(k)    == <<".", ".">> \o k
\* a quoted key as its author writes it: the delimiting quote is escaped
\* with a backslash, everything else stands as it is
RECURSIVE EscapeQuote(_, _)
EscapeQuote(raw, quote) ==
    IF Len(raw) = 0 THEN <<>>
    ELSE (IF raw[1] = quote THEN <<BSL, quote>> ELSE <<raw[1]>>)
            \o EscapeQuote(Tail(raw), quote)
Quoted(quote, raw) == <<"[", quote>> \o EscapeQuote(raw, quote) \o <<quote, "]">>

\* the breadcrumbs of exactly d tokens over chars with at most n characters
\* in all; a token may be empty (an empty YAML key, extension.ts line 149)
RECURSIVE CrumbsOf(_, _, _)
CrumbsOf(chars, d, n) ==
    IF d = 0 THEN {<<>>}
    ELSE UNION {{<<t>> \o rest : rest \in CrumbsOf(chars, d - 1, n - Len(t))} :
                t \in SeqsUpTo(chars, n)}

\* plain keys and the breadcrumbs around them: tokens of letters, of dots and
\* of line breaks (a YAML or JSON key may hold either)
PlainKeys   == {<<"a">>, <<"b">>}
TokenChars  == {"a", "b", ".", LF}
PlainCrumbs == UNION {CrumbsOf(TokenChars, d, MaxChars) : d \in 0..MaxDepth}
PlainExprs ==
    {Root \o Child(k1) \o Child(k2) : k1 \in PlainKeys, k2 \in PlainKeys}
    \cup {Root \o Child(k1) \o Descent(k2) : k1 \in PlainKeys, k2 \in PlainKeys}
    \cup {Root \o Descent(k) : k \in PlainKeys}
    \cup {Root \o Descent(<<"*">>)}

\* quoted keys: every raw key text over KeyChars, in either quote style,
\* against every breadcrumb of at most two tokens with as many characters
KeyChars   == {"a", ".", "*", "]", SQ, DQ}
RawKeys    == SeqsUpTo(KeyChars, MaxKeyLen) \ {<<>>}
KeyCrumbs  == UNION {CrumbsOf(KeyChars, d, MaxKeyLen) : d \in 0..2}
QuotedExprs == {Root \o Quoted(q, raw) : q \in {SQ, DQ}, raw \in RawKeys}

\* the expressions and breadcrumbs of the path matcher's test table that the
\* sets above do not hold, with one-letter names
ExBracketKey  == Root \o Child(<<"a">>) \o Quoted(DQ, <<"b", "[", "0", "]">>) \o Child(<<"a">>)
ExPlusKey     == Root \o Child(<<"a">>) \o Quoted(DQ, <<"b", "+", "+">>) \o Child(<<"b">>)
ExDotKey      == Root \o Child(<<"a">>) \o Quoted(DQ, <<"b", ".", "a">>)
ExBareQuotes  == Root \o <<"[", DQ, "a", DQ, "b", DQ, "a", DQ, "]">>
ExampleInputs ==
    {[e |-> ExBracketKey, c |-> <<<<"a">>, <<"b", "[", "0", "]">>, <<"a">>>>],
     [e |-> ExBracketKey, c |-> <<<<"a">>, <<"b">>, <<"0">>, <<"a">>>>],
     [e |-> ExPlusKey,    c |-> <<<<"a">>, <<"b", "+", "+">>, <<"b">>>>],
     [e |-> ExPlusKey,    c |-> <<<<"a">>, <<"b">>, <<"b">>>>],
     [e |-> ExDotKey,     c |-> <<<<"a">>, <<"b", ".", "a">>>>],
     [e |-> ExDotKey,     c |-> <<<<"a">>, <<"b">>, <<"a">>>>],
     [e |-> ExBareQuotes, c |-> <<<<"a", DQ, "b", DQ, "a">>>>]}

PlainInputs  == {[e |-> x, c |-> y] : x \in PlainExprs, y \in PlainCrumbs}
QuotedInputs ==
    {[e |-> x, c |-> y] : x \in QuotedExprs, y \in KeyCrumbs} \cup ExampleInputs

\* wildcard expressions under the key a and before the key b, against
\* breadcrumbs of letters, digits and line breaks
KeyA == <<"a">>
KeyB == <<"b">>
Star == <<"*">>
IndexWildcard == <<"[", "*", "]">>
Index(n) == <<"[">> \o n \o <<"]">>
WildChars  == {"a", "b", "0", LF}
WildCrumbs == UNION {CrumbsOf(WildChars, d, MaxChars) : d \in 0..MaxDepth}
ExChildWildcard == Root \o Child(KeyA) \o Child(Star)
ExRootWildcard  == Root \o Child(Star)
ExWildcardThenB == Root \o Child(Star) \o Child(KeyB)
ExIndexWildcard == Root \o Child(KeyA) \o IndexWildcard
ExRootIndexWildcard == Root \o IndexWildcard
ExIndexWildcardThenB == Root \o Child(KeyA) \o IndexWildcard \o Child(KeyB)
WildExprs ==
    {ExChildWildcard, ExRootWildcard, ExWildcardThenB,
     ExIndexWildcard, ExRootIndexWildcard, ExIndexWildcardThenB}
\* '$.items[*].id' on ['items','5','6','id'] and on a two-digit index
WildExamples ==
    {[e |-> ExIndexWildcardThenB, c |-> <<KeyA, <<"0">>, <<"0">>, KeyB>>],
     [e |-> ExIndexWildcardThenB, c |-> <<KeyA, <<"0", "0">>, KeyB>>]}
WildInputs ==
    {[e |-> x, c |-> y] : x \in WildExprs, y \in WildCrumbs} \cup WildExamples

\* the path a.b, the path a.0 and their one-token prefixes in dot and in
\* bracket notation
DotAB      == Root \o Child(KeyA) \o Child(KeyB)
BracketsAB == {Root \o Child(KeyA) \o Quoted(DQ, KeyB),
               Root \o Child(KeyA) \o Quoted(SQ, KeyB),
               Root \o Quoted(DQ, KeyA) \o Child(KeyB),
               Root \o Quoted(DQ, KeyA) \o Quoted(DQ, KeyB)}
DotA0      == Root \o Child(KeyA) \o Child(<<"0">>)
BracketA0  == Root \o Child(KeyA) \o Index(<<"0">>)
DotA       == Root \o Child(KeyA)
BracketA   == Root \o Quoted(DQ, KeyA)
Dot0       == Root \o Child(<<"0">>)
Bracket0   == Root \o Index(<<"0">>)
BracketExprs ==
    {DotAB, DotA0, BracketA0, DotA, BracketA, Dot0, Bracket0} \cup BracketsAB
BracketChars  == {"a", "b", "0"}
BracketCrumbs == UNION {CrumbsOf(BracketChars, d, MaxChars) : d \in 0..MaxDepth}
BracketInputs == {[e |-> x, c |-> y] : x \in BracketExprs, y \in BracketCrumbs}

\* malformed expressions: an unbalanced "(", "[" or ")", and a stray "|", "+"
\* or "?" in an unquoted segment
MalformedExprs ==
    {Root \o Child(<<"a", "(", "b">>), Root \o Child(<<"a", "[", "b">>),
     Root \o Child(<<"a", ")", "b">>), Root \o Child(<<"a", "|", "b">>),
     Root \o Child(<<"a", "+">>), Root \o Child(<<"a", "?">>)}
MalformedInputs == {[e |-> x, c |-> y] : x \in MalformedExprs, y \in PlainCrumbs}

\* templates are pieces put side by side: a placeholder of a or of b, or text
VarA == <<"a">>
VarB == <<"b">>
Pieces    == {Placeholder(VarA), Placeholder(VarB), <<"x">>}
Templates == {Join(ps, <<>>) : ps \in SeqsUpTo(Pieces, MaxPieces)}
\* values: every text over the characters that String.prototype.replace
\* treats specially after "$", and the placeholders themselves
ValueChars == {"$", "&", SQ, BQ, "R", "1"}
Values     == SeqsUpTo(ValueChars, MaxValLen)
RefValues  == {Placeholder(VarA), Placeholder(VarB), <<"R">>, <<"$", "R">>}
VarMaps ==
    {<<[key |-> VarA, val |-> v]>> : v \in Values}
    \cup {<<[key |-> VarA, val |-> v1], [key |-> VarB, val |-> v2]>> :
            v1 \in RefValues, v2 \in RefValues}
    \cup {<<[key |-> VarB, val |-> v1], [key |-> VarA, val |-> v2]>> :
            v1 \in RefValues, v2 \in RefValues}

\* slash normalisation: a prefix, "${a}" and a suffix; a is a path of
\* drive prefixes, backslashes, slashes and "://", b one backslash (the
\* value of pathSeparator on Windows); and two tests of linkBuilder.test.ts
HTTPS == <<"h", "t", "t", "p", "s", ":", "/", "/">>
Prefixes == {<<>>, FILE2, FILE3, HTTPS, <<"P", " ">>, <<"f", "i", "l", "e", ":", "/">>}
Suffixes == {<<>>, <<"/", "s">>, Placeholder(VarB)}
PathPieces == {<<"C", ":", BSL>>, <<BSL>>, <<"/">>, <<"p">>, <<":", "/", "/">>}
NormalizeTemplates == {pre \o Placeholder(VarA) \o suf : pre \in Prefixes, suf \in Suffixes}
NormalizeVarMaps ==
    {<<[key |-> VarA, val |-> Join(ps, <<>>)], [key |-> VarB, val |-> <<BSL>>]>> :
        ps \in SeqsUpTo(PathPieces, MaxPieces)}
FileTestInput  == <<"f", "i", "l", "e", ":", "/", "/", "$", "{", "a", "}", "/", "s", "c", "r", "i", "p", "t", ".", "p", "y">>
FileTestValue  == <<"C", ":", BSL, "U", "s", "e", "r", "s", BSL, "D", "e", "v", BSL, "p", "r", "o", "j", "e", "c", "t", BSL, "s", "r", "c">>
FileTestResult == <<"f", "i", "l", "e", ":", "/", "/", "/", "C", ":", "/", "U", "s", "e", "r", "s", "/", "D", "e", "v", "/", "p", "r", "o", "j", "e", "c", "t", "/", "s", "r", "c", "/", "s", "c", "r", "i", "p", "t", ".", "p", "y">>
HttpsTestInput  == <<"h", "t", "t", "p", "s", ":", "/", "/", "g", "i", "t", "h", "u", "b", ".", "c", "o", "m", "/", "v", "i", "e", "w", "/", "$", "{", "a", "}">>
HttpsTestValue  == <<"C", ":", BSL, "U", "s", "e", "r", "s", BSL, "D", "e", "v", BSL, "p", "r", "o", "j", "e", "c", "t", BSL, "R", "E", "A", "D", "M", "E", ".", "m", "d">>
HttpsTestResult == <<"h", "t", "t", "p", "s", ":", "/", "/", "g", "i", "t", "h", "u", "b", ".", "c", "o", "m", "/", "v", "i", "e", "w", "/", "C", ":", "/", "U", "s", "e", "r", "s", "/", "D", "e", "v", "/", "p", "r", "o", "j", "e", "c", "t", "/", "R", "E", "A", "D", "M", "E", ".", "m", "d">>
NormalizeTests ==
    {[in |-> FileTestInput, vars |-> <<[key |-> VarA, val |-> FileTestValue]>>],
     [in |-> HttpsTestInput, vars |-> <<[key |-> VarA, val |-> HttpsTestValue]>>]}
NormalizeInputs ==
    {[in |-> t, vars |-> m] : t \in NormalizeTemplates, m \in NormalizeVarMaps}
        \cup NormalizeTests

\* ------------------------------------------------------------ createLink inputs
\* a regex transform and a command transform; an absent applyTo is <<>>
RegexTransform(applyTo, search, replace) ==
    [kind |-> "regex", command |-> <<>>, search |-> search, replace |-> replace,
     applyTo |-> applyTo]
CommandTransform(applyTo, command) ==
    [kind |-> "command", command |-> command, search |-> <<>>, replace |-> <<>>,
     applyTo |-> applyTo]
\* a rule as createLink reads it: rule.linkPattern
LinkRule(capture, target, text, transforms) ==
    [linkPattern |-> [capture |-> capture, target |-> target, text |-> text,
                      transforms |-> transforms]]
NoRule == LinkRule(<<>>, <<>>, <<>>, <<>>)

\* substitution: the value t-x-y captured by two positional or two named
\* groups, and templates of tokens and "/"
CapPositional == <<"t", "-", "(", ".", "*", ")", "-", "(", ".", "*", ")">>
CapNamed      == <<"t", "-", "(", "?", "<", "p", ">", ".", "*", ")", "-", "(", "?", "<", "i", ">", ".", "*", ")">>
SubValue(x, y) == <<"t", "-">> \o x \o <<"-">> \o y
FirstTexts  == {<<"P">>, <<"$", "2">>}
SecondTexts == {<<"1">>, <<>>}
Token(name) == <<"$">> \o name
TokenNames ==
    {<<"0">>, <<"1">>, <<"2">>, <<"p">>, <<"i">>, <<"9">>, <<"f">>, CONSTRUCTOR,
     TO_STRING, <<"1", "_", "s">>, <<"2", "n">>}
TokenPieces == {Token(n) : n \in TokenNames} \cup {<<"/">>}
RECURSIVE Reverse(_)
Reverse(ps) == IF Len(ps) = 0 THEN <<>> ELSE Append(Reverse(Tail(ps)), ps[1])
LowerFirst == <<CommandTransform(<<"$", "1">>, TO_LOWER_CASE)>>
SubstitutionInputs ==
    {[v |-> SubValue(x, y),
      r |-> LinkRule(c, Join(ps, <<>>), Join(Reverse(ps), <<>>), ts)] :
        x \in FirstTexts, y \in SecondTexts, c \in {CapPositional, CapNamed},
        ps \in SeqsUpTo(TokenPieces, MaxPieces), ts \in {<<>>, LowerFirst}}

\* the two mapping tests of linkBuilder.test.ts
TicketValue   == <<"t", "i", "c", "k", "e", "t", "-", "P", "R", "O", "J", "-", "1", "2", "3">>
TicketRule ==
    LinkRule(<<"t", "i", "c", "k", "e", "t", "-", "(", ".", "*", ")", "-", "(", ".", "*", ")">>,
             <<"h", "t", "t", "p", "s", ":", "/", "/", "j", "i", "r", "a", ".", "c", "o", "m", "/", "$", "1", "/", "b", "r", "o", "w", "s", "e", "/", "$", "2">>,
             <<"J", "i", "r", "a", ":", " ", "$", "2", " ", "i", "n", " ", "$", "1">>, <<>>)
TicketTarget  == <<"h", "t", "t", "p", "s", ":", "/", "/", "j", "i", "r", "a", ".", "c", "o", "m", "/", "P", "R", "O", "J", "/", "b", "r", "o", "w", "s", "e", "/", "1", "2", "3">>
TicketTooltip == <<"J", "i", "r", "a", ":", " ", "1", "2", "3", " ", "i", "n", " ", "P", "R", "O", "J">>
NamedValue    == <<"t", "i", "c", "k", "e", "t", "-", "C", "O", "R", "E", "-", "9", "9">>
NamedRule ==
    LinkRule(<<"t", "i", "c", "k", "e", "t", "-", "(", "?", "<", "p", "r", "o", "j", "e", "c", "t", ">", ".", "*", ")", "-", "(", "?", "<", "i", "d", ">", ".", "*", ")">>,
             <<"h", "t", "t", "p", "s", ":", "/", "/", "j", "i", "r", "a", ".", "c", "o", "m", "/", "$", "p", "r", "o", "j", "e", "c", "t", "/", "b", "r", "o", "w", "s", "e", "/", "$", "i", "d">>,
             <<"P", "r", "o", "j", "e", "c", "t", ":", " ", "$", "p", "r", "o", "j", "e", "c", "t">>, <<>>)
NamedTarget   == <<"h", "t", "t", "p", "s", ":", "/", "/", "j", "i", "r", "a", ".", "c", "o", "m", "/", "C", "O", "R", "E", "/", "b", "r", "o", "w", "s", "e", "/", "9", "9">>
NamedTooltip  == <<"P", "r", "o", "j", "e", "c", "t", ":", " ", "C", "O", "R", "E">>
ExampleLinks ==
    {[v |-> TicketValue, r |-> TicketRule], [v |-> NamedValue, r |-> NamedRule]}

\* transforms: the value x=y captured by (?<n>.*)=(.*), so that "$1" and "$n"
\* select the two copies of the first group; lists of replacements of "_" by
\* "." and of " " by "_" and of case commands
CapPair == <<"(", "?", "<", "n", ">", ".", "*", ")", "=", "(", ".", "*", ")">>
PairValue(x, y) == x \o <<"=">> \o y
PairTexts == {<<"M", "_", "N">>, <<"a", " ", "B">>}
PairSecond == <<"a", " ", "B">>
Selectors == {<<"$", "1">>, <<"$", "n">>, ALL, <<>>}
TransformsOn(sel) ==
    {RegexTransform(sel, <<"_">>, <<".">>), RegexTransform(sel, <<" ">>, <<"_">>),
     CommandTransform(sel, TO_LOWER_CASE), CommandTransform(sel, TO_UPPER_CASE)}
Transforms == UNION {TransformsOn(sel) : sel \in Selectors}
TextWithSpace == <<"a", " ", "b", "/", "$", "2">>
TransformInputs ==
    {[v |-> PairValue(x, y), r |-> LinkRule(CapPair, target, text, ts)] :
        x \in PairTexts, y \in {PairSecond},
        target \in {<<"$", "1">>, <<"$", "n">>}, text \in {TextWithSpace, <<>>},
        ts \in SeqsUpTo(Transforms, MaxTransforms)}

LinkInputs == SubstitutionInputs \cup ExampleLinks \cup TransformInputs

\* replacement texts: one regex transform on x=y whose search is a character,
\* with and without a capture, and whose replace holds the "$" sequences of
\* String.prototype.replace
SearchTexts  == {<<"_">>, <<"(", "_", ")">>, <<" ">>}
ReplaceTexts ==
    {<<".">>, <<"$", "&">>, <<"$", "$">>, <<"$", "1">>, <<"$", "<", "n", ">">>, <<"$">>}
ReplaceInputs ==
    {[v |-> PairValue(x, PairSecond),
      r |-> LinkRule(CapPair, target, <<>>, <<RegexTransform(sel, search, replace)>>)] :
        x \in PairTexts, target \in {<<"$", "1">>, <<"$", "n">>}, sel \in Selectors,
        search \in SearchTexts, replace \in ReplaceTexts}

\* pattern errors: captures and searches that new RegExp rejects, among ones
\* it accepts; values that the capture t-(.*)-(.*) matches or not; a transform
\* on a group that exists, on groups that do not, and deferred
BadPatterns == {<<"(">>, <<"*">>}
ErrorValues == {SubValue(<<"P">>, <<"1">>), <<"u">>, <<>>}
ErrorSelectors == {<<"$", "1">>, <<"$", "9">>, <<"$", "x">>, <<"x">>, ALL, <<>>}
PatternErrorInputs ==
    {[v |-> v, r |-> LinkRule(c, <<"$", "1">>, <<>>, <<RegexTransform(sel, search, <<".">>)>>)] :
        v \in ErrorValues, c \in {CapPositional, <<>>} \cup BadPatterns,
        sel \in ErrorSelectors, search \in {<<"-">>} \cup BadPatterns}

\* the default capture: rules without capture and without transforms on
\* values of letters, spaces and line breaks, the empty value included
DefaultValues  == SeqsUpTo({"a", "b", " ", LF}, MaxValLen)
DefaultTargets == {<<"$", "0">>, <<"$", "1">>, <<"$", "0", "/", "$", "1">>, <<"$", "2">>}
DefaultInputs ==
    {[v |-> v, r |-> LinkRule(<<>>, target, <<>>, <<>>)] :
        v \in DefaultValues, target \in DefaultTargets}

\* the frame of a transform: the value x=y captured by (?<n>.*)=(.*) or by
\* (?<all>.*)=(.*), one transform whose selector names a positional group, a
\* named group, no group, a member of Object.prototype, "all" or nothing, and
\* a target that shows every working copy
CapAll == <<"(", "?", "<", "a", "l", "l", ">", ".", "*", ")", "=", "(", ".", "*", ")">>
FrameFirst  == {<<"m", "_", "n">>, <<"a", " ", "b">>}
FrameSecond == {<<"c", "_", "d">>, <<"e">>}
FrameSelectors ==
    {<<"$", "0">>, <<"$", "1">>, <<"$", "2">>, <<"$", "n">>, <<"n">>, <<"$">> \o ALL,
     <<"$", "9">>, <<"$", "x">>, <<"$">> \o TO_STRING, ALL, <<>>}
FrameTransforms ==
    {CommandTransform(sel, c) : sel \in FrameSelectors, c \in {TO_UPPER_CASE, URL_ENCODE}}
        \cup {RegexTransform(sel, <<"_">>, <<".">>) : sel \in FrameSelectors \ {ALL, <<>>}}
FrameTarget ==
    <<"$", "0", "/", "$", "1", "/", "$", "2", "/", "$", "n", "/", "$">> \o ALL
FrameInputs ==
    {[v |-> PairValue(x, y), r |-> LinkRule(c, FrameTarget, <<>>, <<t>>)] :
        x \in FrameFirst, y \in FrameSecond, c \in {CapPair, CapAll},
        t \in FrameTransforms}

\* ------------------------------------------------------------ getLinks inputs
\* rules with the default capture: the link target is the template with "$0"
\* replaced by the node's value
PathRule(jsonPath_, isArray, valuePattern, target) ==
    [jsonPath |-> jsonPath_, jsonPathIsArray |-> isArray,
     jsonPathValuePattern |-> valuePattern,
     linkPattern |-> [capture |-> <<>>, target |-> target, text |-> <<>>,
                      transforms |-> <<>>]]
\* a rule with a capture, for which createLink returns null on the values
\* the capture does not match
CaptureRule(jsonPath_, capture, target) ==
    [jsonPath |-> jsonPath_, jsonPathIsArray |-> FALSE, jsonPathValuePattern |-> <<>>,
     linkPattern |-> [capture |-> capture, target |-> target, text |-> <<>>,
                      transforms |-> <<>>]]
GoodA   == <<"$", ".", "a">>
GoodB   == <<"$", ".", "b">>
AnyKey  == <<"$", ".", "*">>
BadPath == <<"$", ".", "a", "[", "b">>
Whole   == <<"$", "0">>
InFile  == <<"$", "{", "f", "i", "l", "e", "}", "#", "$", "0">>
RuleSets ==
    {<<>>,
     <<PathRule(GoodA, FALSE, <<>>, Whole)>>,
     <<PathRule(<<GoodA, GoodB>>, TRUE, <<>>, Whole)>>,
     <<PathRule(<<BadPath, GoodA>>, TRUE, <<>>, Whole)>>,
     <<PathRule(<<GoodA, BadPath>>, TRUE, <<>>, Whole)>>,
     <<PathRule(BadPath, FALSE, <<>>, Whole), PathRule(GoodA, FALSE, <<>>, InFile)>>,
     <<PathRule(GoodB, FALSE, <<>>, InFile), PathRule(<<GoodA, GoodB>>, TRUE, <<>>, Whole)>>,
     <<PathRule(AnyKey, FALSE, <<"w">>, Whole), PathRule(GoodA, FALSE, <<"(">>, InFile),
       PathRule(GoodA, FALSE, <<>>, Whole)>>,
     <<CaptureRule(GoodA, <<"w">>, Whole), PathRule(AnyKey, FALSE, <<>>, InFile)>>,
     <<PathRule(<<GoodA, AnyKey>>, TRUE, <<"w">>, Whole), PathRule(GoodA, FALSE, <<>>, InFile)>>}

\* documents: the language, the file path and the scalar nodes of the parsed
\* text in document order, each with its breadcrumb
Scalar(path, value, isString) == [path |-> path, value |-> value, isString |-> isString]
Document(languageId, fsPath, nodes) ==
    [languageId |-> languageId, fsPath |-> fsPath, nodes |-> nodes]
NoDocument == Document("", <<>>, <<>>)
DocA  == Document("yaml", <<"d">>, <<Scalar(<<<<"a">>>>, <<"v">>, TRUE)>>)
DocB  == Document("yaml", <<"e">>, <<Scalar(<<<<"b">>>>, <<"w">>, TRUE)>>)
DocAB == Document("json", <<"f">>,
                  <<Scalar(<<<<"a">>>>, <<"w">>, TRUE), Scalar(<<<<"b">>>>, <<"1">>, FALSE),
                    Scalar(<<<<"a">>, <<"b">>>>, <<"v">>, TRUE)>>)
DocMd == Document("markdown", <<"g">>, <<Scalar(<<<<"a">>>>, <<"v">>, TRUE)>>)
Documents == {DocA, DocB, DocAB, DocMd}

\* text rules: one pattern or a list of two; patterns that match a
\* character, that can match the empty text, and one that does not compile
TextRule(textPattern, isArray, target) ==
    [jsonPath |-> <<>>, jsonPathIsArray |-> FALSE, jsonPathValuePattern |-> <<>>,
     textPattern |-> textPattern, textPatternIsArray |-> isArray,
     linkPattern |-> [capture |-> <<>>, target |-> target, text |-> <<>>,
                      transforms |-> <<>>]]
TextPatterns == {<<"a">>, <<"b", "+">>, <<"a", "*">>, <<"x", "?">>, <<"(">>}
TextRuleSets ==
    {<<>>, <<TextRule(<<>>, FALSE, Whole), TextRule(<<"a">>, FALSE, InFile)>>}
    \cup {<<TextRule(p, FALSE, Whole)>> : p \in TextPatterns}
    \cup {<<TextRule(p, FALSE, Whole), TextRule(q, FALSE, InFile)>> :
            p \in TextPatterns, q \in TextPatterns}
    \cup {<<TextRule(<<p, q>>, TRUE, Whole)>> : p \in TextPatterns, q \in TextPatterns}
Texts == SeqsUpTo({"a", "b"}, MaxTextLen)

\* ------------------------------------------------------------ state machine
NoMatch == [threw |-> FALSE, value |-> FALSE]

\* no call of injectSystemVariables, of matchesPath, of createLink
ResolveIdle == input = <<>> /\ vars = <<>> /\ result = <<>>
MatchIdle   == jsonPath = <<>> /\ currentPath = <<>> /\ matched = NoMatch
LinkIdle    == matchedValue = <<>> /\ rule = NoRule /\ link = Null
\* the extension not activated and no pass made
PassIdle     == document = NoDocument /\ allRules = <<>> /\ returned = <<>>
\* no text scan begun
ScanIdle ==
    /\ docText = <<>>
    /\ textPatternRules = <<>>
    /\ ruleIndex = 0
    /\ patternIndex = 0
    /\ globalRegex = Absent
    /\ textLinks = <<>>
    /\ turns = 0
ProviderIdle ==
    /\ regexCache = EmptyCache
    /\ config = <<>>
    /\ currentProvider = "undefined"
    /\ registered = 0
    /\ handled = "none"
    /\ PassIdle

InitResolve ==
    /\ pc = "idle"
    /\ input \in Templates
    /\ vars \in VarMaps
    /\ result = <<>>
    /\ MatchIdle
    /\ LinkIdle
    /\ ProviderIdle
    /\ ScanIdle

\* a call of injectSystemVariables(input, vars)
InjectSystemVariables ==
    /\ pc = "idle"
    /\ result' = injectSystemVariables(input, vars)
    /\ pc' = "resolved"
    /\ UNCHANGED <<input, vars, matchVars, linkVars, providerVars, scanVars>>

NextResolve == InjectSystemVariables

SpecResolve == InitResolve /\ [][NextResolve]_allVars

InitNormalize ==
    /\ pc = "idle"
    /\ \E in \in NormalizeInputs : input = in.in /\ vars = in.vars
    /\ result = <<>>
    /\ MatchIdle
    /\ LinkIdle
    /\ ProviderIdle
    /\ ScanIdle

\* injectSystemVariables on paths with backslashes under URI prefixes
SpecNormalize == InitNormalize /\ [][NextResolve]_allVars

InitInputs(inputs) ==
    /\ pc = "idle"
    /\ \E in \in inputs : jsonPath = in.e /\ currentPath = in.c
    /\ matched = NoMatch
    /\ ResolveIdle
    /\ LinkIdle
    /\ ProviderIdle
    /\ ScanIdle

InitMatch  == InitInputs(PlainInputs)
InitQuoted == InitInputs(QuotedInputs)
InitWildcard  == InitInputs(WildInputs)
InitBracket   == InitInputs(BracketInputs)
InitMalformed == InitInputs(MalformedInputs)

\* a call of matchesPath(jsonPath, currentPath)
MatchesPath ==
    /\ pc = "idle"
    /\ matched' = matchesPath(jsonPath, currentPath)
    /\ pc' = "matched"
    /\ UNCHANGED <<resolveVars, jsonPath, currentPath, linkVars, providerVars, scanVars>>

NextMatch == MatchesPath

\* dotted, recursive and wildcard expressions over plain keys
SpecMatch  == InitMatch /\ [][NextMatch]_allVars
\* expressions with a quoted bracket key
SpecQuoted == InitQuoted /\ [][NextMatch]_allVars
\* expressions with the wildcards "*" and "[*]"
SpecWildcard  == InitWildcard /\ [][NextMatch]_allVars
\* the same path in dot and in bracket notation
SpecBracket   == InitBracket /\ [][NextMatch]_allVars
\* malformed expressions
SpecMalformed == InitMalformed /\ [][NextMatch]_allVars

InitLinkOn(inputs) ==
    /\ pc = "idle"
    /\ \E in \in inputs : matchedValue = in.v /\ rule = in.r
    /\ link = Null
    /\ ResolveIdle
    /\ MatchIdle
    /\ ProviderIdle
    /\ ScanIdle

InitLink    == InitLinkOn(LinkInputs)
InitReplace == InitLinkOn(ReplaceInputs)
InitPatternError == InitLinkOn(PatternErrorInputs)
InitDefault == InitLinkOn(DefaultInputs)
InitFrame == InitLinkOn(FrameInputs)

\* a call of createLink(matchedValue, rule)
CreateLink ==
    /\ pc = "idle"
    /\ link' = createLink(matchedValue, rule)
    /\ pc' = "linked"
    /\ UNCHANGED <<resolveVars, matchVars, matchedValue, rule, providerVars, scanVars>>

NextLink == CreateLink

\* createLink on captured values, templates and transform lists
SpecLink == InitLink /\ [][NextLink]_allVars
\* createLink with one regex transform and a replacement text with "$" in it
SpecReplace == InitReplace /\ [][NextLink]_allVars
\* createLink with patterns that do not compile
SpecPatternError == InitPatternError /\ [][NextLink]_allVars
\* createLink with the default capture
SpecDefault == InitDefault /\ [][NextLink]_allVars
\* createLink with one transform and a target that shows every group
SpecFrame == InitFrame /\ [][NextLink]_allVars

\* the extension loaded, not yet activated, with some rule set in the settings
InitProvider ==
    /\ pc = "inactive"
    /\ regexCache = EmptyCache
    /\ config \in RuleSets
    /\ currentProvider = "undefined"
    /\ registered = 0
    /\ handled = "none"
    /\ PassIdle
    /\ ResolveIdle
    /\ MatchIdle
    /\ LinkIdle
    /\ ScanIdle

\* reloadProvider that registers a provider and leaves the one in place
ReloadProviderKeepingOld ==
    /\ regexCache' = EmptyCache
    /\ registered' = registered + 1
    /\ currentProvider' = "registered"

\* reloadProvider (lines 18-34): the cache is cleared, the provider in place is
\* disposed and a new one registered
ReloadProvider ==
    /\ regexCache' = EmptyCache
    /\ registered' =
        (IF currentProvider = "registered" THEN registered - 1 ELSE registered) + 1
    /\ currentProvider' = "registered"

\* activate (lines 16-45)
Activate ==
    /\ pc = "inactive"
    /\ ReloadProvider
    /\ pc' = "active"
    /\ handled' = "activate"
    /\ UNCHANGED <<config, document, allRules, returned, resolveVars, matchVars, linkVars,
                   scanVars>>

\* the onDidChangeConfiguration listener (lines 40-44): the settings changed,
\* in the section structuralLinks (the rules are now new) or in another one
OnDidChangeConfiguration ==
    /\ pc = "active"
    /\ \E affects \in BOOLEAN, new \in RuleSets :
        IF affects THEN config' = new /\ ReloadProvider /\ handled' = "structuralLinks"
        ELSE /\ handled' = "other"
             /\ UNCHANGED <<config, regexCache, currentProvider, registered>>
    /\ UNCHANGED <<pc, document, allRules, returned, resolveVars, matchVars, linkVars,
                   scanVars>>

\* provideDocumentLinks (lines 29-31): the editor asks a registered provider
\* for the links of a document; one whole pass of getLinks
ProvideDocumentLinks ==
    /\ registered > 0
    /\ \E doc \in Documents :
        /\ document' = doc
        /\ allRules' = config
        /\ \E r \in {getLinks(doc, config, regexCache)} :
            /\ returned' = r.links
            /\ regexCache' = r.cache
    /\ handled' = "provideDocumentLinks"
    /\ UNCHANGED <<pc, config, currentProvider, registered, resolveVars, matchVars,
                   linkVars, scanVars>>

\* deactivate (lines 47-51)
Deactivate ==
    /\ pc = "active"
    /\ pc' = "deactivated"
    /\ handled' = "deactivate"
    /\ IF currentProvider = "registered"
       THEN currentProvider' = "disposed" /\ registered' = registered - 1
       ELSE UNCHANGED <<currentProvider, registered>>
    /\ UNCHANGED <<regexCache, config, document, allRules, returned, resolveVars,
                   matchVars, linkVars, scanVars>>

NextProvider ==
    \/ Activate
    \/ OnDidChangeConfiguration
    \/ ProvideDocumentLinks
    \/ Deactivate

\* the extension's life: passes over documents, setting changes, shutdown
SpecProvider == InitProvider /\ [][NextProvider]_allVars

\* the extension activated, one provider registered, text rules in the settings
InitText ==
    /\ pc = "active"
    /\ regexCache = EmptyCache
    /\ config \in TextRuleSets
    /\ currentProvider = "registered"
    /\ registered = 1
    /\ handled = "activate"
    /\ PassIdle
    /\ ResolveIdle
    /\ MatchIdle
    /\ LinkIdle
    /\ ScanIdle

\* getLinks on a document that is no YAML or JSON, from its first line to the
\* forEach of line 174: the rules are read and filtered, the text taken
StartTextScan ==
    /\ pc = "active"
    /\ registered > 0
    /\ document' = DocMd
    /\ allRules' = config
    /\ \E t \in Texts : docText' = t
    /\ textPatternRules' = SelectSeq(config, HasTextPattern)
    /\ ruleIndex' = 1
    /\ patternIndex' = 1
    /\ globalRegex' = Absent
    /\ textLinks' = <<>>
    /\ turns' = 0
    /\ pc' = "scanning"
    /\ handled' = "provideDocumentLinks"
    /\ UNCHANGED <<regexCache, config, currentProvider, registered, returned, resolveVars,
                   matchVars, linkVars>>

\* lines 179-181: the next pattern of the rule is compiled with the g flag;
\* a SyntaxError is caught by the catch of line 207, which ends the rule; a
\* rule whose patterns are all scanned is left
CompileTextPattern ==
    /\ pc = "scanning"
    /\ ruleIndex <= Len(textPatternRules)
    /\ IsAbsent(globalRegex)
    /\ LET patterns == PatternsOf(textPatternRules[ruleIndex])
           Compiled(regex) ==
                IF regex.err
                THEN /\ ruleIndex' = ruleIndex + 1
                     /\ patternIndex' = 1
                     /\ UNCHANGED globalRegex
                ELSE /\ globalRegex' = RegExpObject(regex, TRUE)
                     /\ UNCHANGED <<ruleIndex, patternIndex>>
       IN  IF patternIndex > Len(patterns)
           THEN /\ ruleIndex' = ruleIndex + 1
                /\ patternIndex' = 1
                /\ UNCHANGED globalRegex
           ELSE Compiled(NewRegExp(patterns[patternIndex]))
    /\ UNCHANGED <<pc, docText, textPatternRules, textLinks, turns, resolveVars,
                   matchVars, linkVars, providerVars>>

\* one turn of "while ((match = globalRegex.exec(text)) !== null)" (lines
\* 182-205): exec searches from lastIndex and leaves the end of the match in
\* it; a match gives a link when createLink returns one; no match ends the
\* loop.  [globalRegex, patternIndex, textLinks] after the turn.  The model
\* keeps the first MaxLinks links of a scan.
ExecTurn(rx, text_, rule_, j, ls, vars_) ==
    LET Linked(match, linkDetails) ==
            [globalRegex  |-> [rx EXCEPT !.lastIndex = match.end],
             patternIndex |-> j,
             textLinks    |-> IF linkDetails.null \/ Len(ls) >= MaxLinks THEN ls
                              ELSE Append(ls, TextLink(match, linkDetails, vars_))]
        Turn(match) ==
            IF ~match.found
            THEN [globalRegex |-> Absent, patternIndex |-> j + 1, textLinks |-> ls]
            ELSE Linked(match, createLink(SubSeq(text_, match.index + 1, match.end), rule_))
    IN  Turn(RegExpExec(rx.re, text_, rx.lastIndex))

ExecTextPatternEnabled ==
    /\ pc = "scanning"
    /\ ~IsAbsent(globalRegex)

ExecTextPattern ==
    /\ ExecTextPatternEnabled
    /\ \E turn \in {ExecTurn(globalRegex, docText, textPatternRules[ruleIndex], patternIndex,
                             textLinks, buildSystemVariableMap(document))} :
        /\ globalRegex' = turn.globalRegex
        /\ patternIndex' = turn.patternIndex
        /\ textLinks' = turn.textLinks
    /\ turns' = (turns + 1) % TurnsModulus
    /\ UNCHANGED <<pc, docText, textPatternRules, ruleIndex, resolveVars, matchVars,
                   linkVars, providerVars>>

\* line 212: every rule was run and the links are returned
ReturnTextLinks ==
    /\ pc = "scanning"
    /\ ruleIndex > Len(textPatternRules)
    /\ returned' = textLinks
    /\ pc' = "scanned"
    /\ UNCHANGED <<regexCache, config, currentProvider, registered, document, allRules,
                   handled, resolveVars, matchVars, linkVars, scanVars>>

NextText ==
    \/ StartTextScan
    \/ CompileTextPattern
    \/ ExecTextPattern
    \/ ReturnTextLinks

\* the text strategy of getLinks, one turn of its loops at a time
SpecText == InitText /\ [][NextText]_allVars
\* the same with the call running on: a turn that can be taken is taken
\* (weak fairness of each action; for ExecTextPattern, whose every step
\* changes turns, with its guard written out for ENABLED)
SpecTextFair ==
    /\ SpecText
    /\ WF_allVars(StartTextScan)
    /\ WF_allVars(CompileTextPattern)
    /\ WF_allVars(ReturnTextLinks)
    /\ ([]<>(~ExecTextPatternEnabled) \/ []<><<ExecTextPattern>>_allVars)

\* ------------------------------------------------------------ claims
\* matchesPath returned true
Accepts == ~matched.threw /\ matched.value

\* no token of the breadcrumb holds a line terminator
NoLineBreak(crumb) ==
    \A i \in 1..Len(crumb) : \A j \in 1..Len(crumb[i]) : crumb[i][j] \notin LineTerminators

\* the text s with every occurrence of p replaced by exactly the text v
RECURSIVE Splice(_, _, _, _)
Splice(s, i, p, v) ==
    IF i > Len(s) THEN <<>>
    ELSE IF MatchAt(s, i, p) THEN v \o Splice(s, i + Len(p), p, v)
    ELSE <<s[i]>> \o Splice(s, i + 1, p, v)

\* the text s with, in one pass, every placeholder of an entry replaced by
\* exactly that entry's value; inserted text is not looked at again
RECURSIVE SpliceTogether(_, _, _)
SpliceTogether(s, i, entries) ==
    IF i > Len(s) THEN <<>>
    ELSE LET hits == {k \in 1..Len(entries) : MatchAt(s, i, Placeholder(entries[k].key))}
         IN  IF hits = {} THEN <<s[i]>> \o SpliceTogether(s, i + 1, entries)
             ELSE LET k == CHOOSE h \in hits : TRUE
                  IN  entries[k].val
                        \o SpliceTogether(s, i + Len(Placeholder(entries[k].key)), entries)

\* C1: with one variable, the result of injectSystemVariables is the template
\* with each "${name}" replaced by exactly the characters of the value (then
\* normalised), whatever follows a "$" in the value.
C1_ValueInsertedVerbatim ==
    (pc = "resolved" /\ Len(vars) = 1)
        => result = NormalizeSlashes(Splice(input, 1, Placeholder(vars[1].key), vars[1].val))

\* C2: with two variables whose values may spell a placeholder, the result is
\* the template with the placeholders replaced in one pass (inserted text is
\* never scanned again), and so is the same for either order of the entries.
C2_InsertedTextNotRescanned ==
    (pc = "resolved" /\ Len(vars) = 2)
        => /\ result = NormalizeSlashes(SpliceTogether(input, 1, vars))
           /\ result = injectSystemVariables(input, <<vars[2], vars[1]>>)

\* C3: "$.a..b" accepts a breadcrumb exactly when it has at least two tokens,
\* the first equal to a and the last equal to b.
C3_MidDescentKeepsTokenBoundaries ==
    \A a \in PlainKeys, b \in PlainKeys :
        (pc = "matched" /\ jsonPath = Root \o Child(a) \o Descent(b)
            /\ NoLineBreak(currentPath))
        => (Accepts <=> /\ Len(currentPath) >= 2
                        /\ currentPath[1] = a
                        /\ currentPath[Len(currentPath)] = b)

\* C4: "$..key" accepts a breadcrumb exactly when it is not empty and its
\* last token equals key.
C4_LeadingDescentMatchesLastToken ==
    \A k \in PlainKeys :
        (pc = "matched" /\ jsonPath = Root \o Descent(k))
        => (Accepts <=> /\ Len(currentPath) >= 1
                        /\ currentPath[Len(currentPath)] = k)

\* C5: "$.a.b" accepts exactly the breadcrumb of the two tokens a, b in that
\* order, and never throws.
C5_LiteralPathIsAnchored ==
    \A a \in PlainKeys, b \in PlainKeys :
        (pc = "matched" /\ jsonPath = Root \o Child(a) \o Child(b))
        => /\ ~matched.threw
           /\ matched.value <=> currentPath = <<a, b>>

\* C5 witness: "$.a.b" was evaluated on the breadcrumb [a, b] and accepted it
C5_Witness ==
    /\ pc = "matched"
    /\ jsonPath = Root \o Child(<<"a">>) \o Child(<<"b">>)
    /\ currentPath = <<<<"a">>, <<"b">>>>
    /\ Accepts

\* the raw keys made of the given characters only
KeysOver(chars) == {raw \in RawKeys : \A i \in 1..Len(raw) : raw[i] \in chars}

\* an expression that is one quoted key accepts exactly the one-token
\* breadcrumb holding the raw key text
QuotedKeyIsLiteral(keys) ==
    \A q \in {SQ, DQ}, raw \in keys :
        (pc = "matched" /\ jsonPath = Root \o Quoted(q, raw))
        => (Accepts <=> currentPath = <<raw>>)

\* C6: a quoted key with brackets or regex metacharacters matches exactly the
\* token equal to its text: keys over a, "*", "]", and the bracket and plus
\* keys of the test table.
C6_MetaCharKeyIsLiteral ==
    /\ QuotedKeyIsLiteral(KeysOver({"a", "*", "]"}))
    /\ (pc = "matched" /\ jsonPath = ExBracketKey)
        => (Accepts <=> currentPath = <<<<"a">>, <<"b", "[", "0", "]">>, <<"a">>>>)
    /\ (pc = "matched" /\ jsonPath = ExPlusKey)
        => (Accepts <=> currentPath = <<<<"a">>, <<"b", "+", "+">>, <<"b">>>>)

\* C7: dots in a quoted key are literal wherever they stand, two in a row
\* included: keys over a and ".", and the dotted key of the test table.
C7_DotsInKeyAreLiteral ==
    /\ QuotedKeyIsLiteral(KeysOver({"a", "."}))
    /\ (pc = "matched" /\ jsonPath = ExDotKey)
        => (Accepts <=> currentPath = <<<<"a">>, <<"b", ".", "a">>>>)

\* C8: a quoted key that holds quote characters (the other kind as it is, the
\* delimiting kind behind a backslash) matches exactly the token holding the
\* raw key text: keys over a, "]" and the two quotes, with a quote in them.
C8_QuotesInKey ==
    QuotedKeyIsLiteral({raw \in KeysOver({"a", "]", SQ, DQ}) :
                            \E i \in 1..Len(raw) : raw[i] \in {SQ, DQ}})

\* C9: the expression $["a"b"a"], whose inner double quotes have no
\* backslash, accepts the one-token breadcrumb [a"b"a].
C9_BareInnerQuotes ==
    (pc = "matched" /\ jsonPath = ExBareQuotes
        /\ currentPath = <<<<"a", DQ, "b", DQ, "a">>>>)
        => Accepts

\* C10: "$..*" accepts every breadcrumb of at least one token, an empty
\* token included, and rejects only the empty breadcrumb.
C10_DescentWildcardMatchesAll ==
    (pc = "matched" /\ jsonPath = Root \o Descent(<<"*">>) /\ NoLineBreak(currentPath))
        => (Accepts <=> Len(currentPath) >= 1)

\* a token of one or more decimal digits
IsIndex(token) == Len(token) >= 1 /\ \A i \in 1..Len(token) : token[i] \in Digits

C12_BracketAndDotAgree ==
    pc = "matched" =>
        /\ ~matched.threw
        /\ jsonPath \in {DotAB} \cup BracketsAB =>
            (matched.value <=> currentPath = <<KeyA, KeyB>>)
        /\ jsonPath \in {DotA0, BracketA0} =>
            (matched.value <=> currentPath = <<KeyA, <<"0">>>>)
        /\ jsonPath \in {DotA, BracketA} =>
            (matched.value <=> currentPath = <<KeyA>>)
        /\ jsonPath \in {Dot0, Bracket0} =>
            (matched.value <=> currentPath = <<<<"0">>>>)

\* C12 witness: '$["a"].b' was evaluated on [a, b] and accepted it
C12_Witness ==
    /\ pc = "matched"
    /\ jsonPath = Root \o Quoted(DQ, KeyA) \o Child(KeyB)
    /\ currentPath = <<KeyA, KeyB>>
    /\ Accepts

\* C13: for a malformed expression matchesPath returns false on every
\* breadcrumb and never throws.
C13_MalformedMatchesNothing ==
    (pc = "matched" /\ jsonPath \in MalformedExprs)
        => ~matched.threw /\ ~matched.value

\* an expression that jsonPathToRegex compiles
Compiles(path) == ~jsonPathToRegex(path).err

\* the rules with the expressions that do not compile taken off their lists
WithoutMalformed(rules) ==
    [k \in 1..Len(rules) |->
        [rules[k] EXCEPT !.jsonPath = SelectSeq(PathsOf(rules[k]), Compiles),
                         !.jsonPathIsArray = TRUE]]

\* C14: an expression that fails to compile only matches nothing: a pass
\* returns the links it returns when the failing expressions are taken off
\* the lists of their rules, the other expressions of the list (before and
\* after) and the other rules producing their links.
C14_MalformedIsolated ==
    document # NoDocument
        => returned = getLinks(document, WithoutMalformed(allRules), EmptyCache).links

\* breadcrumbs on which the matchers of the cache are compared
CacheCrumbs == {<<>>, <<<<"a">>>>, <<<<"b">>>>, <<<<"a">>, <<"b">>>>}

\* C15: whatever passes and clears came before, the matcher the cache holds
\* for an expression answers on a breadcrumb as a matcher freshly compiled
\* from that expression does, and asking it again gives the same answer.
C15_CacheCoherent ==
    \A q \in DOMAIN regexCache, c \in CacheCrumbs :
        /\ Test(regexCache[q], PathString(c)).value
            = Test(RegExpObject(jsonPathToRegex(q), FALSE), PathString(c)).value
        /\ Test(Test(regexCache[q], PathString(c)).rx, PathString(c)).value
            = Test(regexCache[q], PathString(c)).value

\* C15 witness: after a pass that returned links the cache holds the matchers
\* of two expressions
C15_Witness ==
    /\ Cardinality(DOMAIN regexCache) >= 2
    /\ returned # <<>>

\* C16: a pass that shares the cache with the passes before it returns the
\* links that the same pass returns alone, on an empty cache.
C16_PassesDoNotInterfere ==
    document # NoDocument => returned = getLinks(document, allRules, EmptyCache).links

\* C16 witness: the pass over the document a: v returned a link while the
\* cache held the matcher of "$.b", which that pass alone never compiles
C16_Witness ==
    /\ document = DocA
    /\ allRules = <<PathRule(<<GoodA, GoodB>>, TRUE, <<>>, Whole)>>
    /\ GoodB \in DOMAIN regexCache
    /\ returned = <<[node |-> 1, target |-> <<"v">>, tooltip |-> OpenLink]>>

\* the end of the run of word characters that starts at p
RECURSIVE WordEnd(_, _)
WordEnd(s, p) == IF p <= Len(s) /\ s[p] \in WordChars THEN WordEnd(s, p + 1) ELSE p

\* the text of the entry of a table (a sequence of [name, text]) with this name
HasEntry(table, name) == \E k \in 1..Len(table) : table[k].name = name
EntryText(table, name) == table[CHOOSE k \in 1..Len(table) : table[k].name = name].text

\* the template s with every "$token" that names an entry of the table
\* replaced by that entry's text and every other one left as it is
RECURSIVE Substituted(_, _, _)
Substituted(s, i, table) ==
    IF i > Len(s) THEN <<>>
    ELSE LET e    == WordEnd(s, i + 1)
             name == SubSeq(s, i + 1, e - 1)
         IN  IF s[i] = "$" /\ e > i + 1
             THEN (IF HasEntry(table, name) THEN EntryText(table, name)
                   ELSE SubSeq(s, i, e - 1)) \o Substituted(s, e, table)
             ELSE <<s[i]>> \o Substituted(s, i + 1, table)

\* every "$token" of the template names an entry of the table
RECURSIVE AllResolved(_, _, _)
AllResolved(s, i, table) ==
    IF i > Len(s) THEN TRUE
    ELSE LET e == WordEnd(s, i + 1)
         IN  IF s[i] = "$" /\ e > i + 1
             THEN HasEntry(table, SubSeq(s, i + 1, e - 1)) /\ AllResolved(s, e, table)
             ELSE AllResolved(s, i + 1, table)

\* the groups of t-x-y by token: the decimal indices of the captured groups
\* and, for the named capture, the names; ts is the transform list
GroupTable(c, x, y, ts) ==
    <<[name |-> <<"0">>, text |-> SubValue(x, y)],
      [name |-> <<"1">>, text |-> IF ts = LowerFirst THEN ToLowerCase(x) ELSE x],
      [name |-> <<"2">>, text |-> y]>>
    \o (IF c = CapNamed
        THEN <<[name |-> <<"p">>, text |-> x], [name |-> <<"i">>, text |-> y]>>
        ELSE <<>>)

\* the tooltip template of the rule
TooltipTemplate == IF rule.linkPattern.text = <<>> THEN OpenLink ELSE rule.linkPattern.text

\* createLink was called on t-x-y with the capture c and the transforms ts
SubstitutionCase(c, x, y, ts) ==
    /\ pc = "linked"
    /\ matchedValue = SubValue(x, y)
    /\ rule.linkPattern.capture = c
    /\ rule.linkPattern.transforms = ts

\* C17: when every "$token" of a template is the name of a captured named
\* group or the decimal index of a captured group, the result is the template
\* with each token replaced by that group's (transformed) text, in the target
\* and in the tooltip; the two mapping tests give the links they expect.
C17_PlaceholdersResolved ==
    /\ \A x \in FirstTexts, y \in SecondTexts, c \in {CapPositional, CapNamed},
          ts \in {<<>>, LowerFirst} :
        SubstitutionCase(c, x, y, ts) =>
            LET table == GroupTable(c, x, y, ts)
            IN  /\ ~link.null
                /\ AllResolved(rule.linkPattern.target, 1, table)
                    => link.target = Substituted(rule.linkPattern.target, 1, table)
                /\ AllResolved(TooltipTemplate, 1, table)
                    => link.tooltip = Substituted(TooltipTemplate, 1, table)
    /\ (pc = "linked" /\ matchedValue = TicketValue /\ rule = TicketRule)
        => link = LinkDetails(TicketTarget, TicketTooltip)
    /\ (pc = "linked" /\ matchedValue = NamedValue /\ rule = NamedRule)
        => link = LinkDetails(NamedTarget, NamedTooltip)

\* C17 witness: the target "$p$2" and the tooltip "$2$p" were filled from the
\* named capture of t-P-1
C17_Witness ==
    /\ SubstitutionCase(CapNamed, <<"P">>, <<"1">>, <<>>)
    /\ rule.linkPattern.target = <<"$", "p", "$", "2">>
    /\ link = LinkDetails(<<"P", "1">>, <<"1", "P">>)

\* C18: a "$token" that is neither the name of a captured named group nor the
\* decimal index of a captured group stays in the result as it is, and the
\* other tokens are replaced: the result is the template substituted from the
\* table of the groups, whatever tokens the template holds.
C18_UnresolvedLeftVerbatim ==
    \A x \in FirstTexts, y \in SecondTexts, c \in {CapPositional, CapNamed},
       ts \in {<<>>, LowerFirst} :
        SubstitutionCase(c, x, y, ts) =>
            LET table == GroupTable(c, x, y, ts)
            IN  /\ ~link.null
                /\ link.target = Substituted(rule.linkPattern.target, 1, table)
                /\ link.tooltip = Substituted(TooltipTemplate, 1, table)

\* the text that one transform makes of a text
Rewritten(t, text) ==
    IF t.kind = "regex" THEN Splice(text, 1, t.search, t.replace)
    ELSE IF t.command = TO_LOWER_CASE THEN ToLowerCase(text)
    ELSE IF t.command = TO_UPPER_CASE THEN ToUpperCase(text)
    ELSE text

\* a regex transform with the selector "all" or none
IsDeferred(t) == t.kind = "regex" /\ t.applyTo \in {ALL, <<>>}

\* the text after the transforms of the list that select sel, one after
\* another in list order
RECURSIVE RewrittenBy(_, _, _, _)
RewrittenBy(ts, k, sel, text) ==
    IF k > Len(ts) THEN text
    ELSE RewrittenBy(ts, k + 1, sel,
                     IF ts[k].applyTo = sel THEN Rewritten(ts[k], text) ELSE text)

\* the text after the deferred transforms of the list, in list order
RECURSIVE Deferred(_, _, _)
Deferred(ts, k, text) ==
    IF k > Len(ts) THEN text
    ELSE Deferred(ts, k + 1, IF IsDeferred(ts[k]) THEN Rewritten(ts[k], text) ELSE text)

\* createLink was called on x=y with the target template sel
TransformCase(x, sel) ==
    /\ pc = "linked"
    /\ matchedValue = PairValue(x, PairSecond)
    /\ rule.linkPattern.capture = CapPair
    /\ rule.linkPattern.target = sel

\* C19: with no deferred transform in the list, the text substituted for a
\* group selector is the captured text rewritten by the transforms that
\* select it, one after another in list order.
C19_TransformsCompose ==
    \A x \in PairTexts, sel \in {<<"$", "1">>, <<"$", "n">>} :
        (TransformCase(x, sel)
            /\ \A k \in 1..Len(rule.linkPattern.transforms) :
                    ~IsDeferred(rule.linkPattern.transforms[k]))
        => /\ ~link.null
           /\ link.target = RewrittenBy(rule.linkPattern.transforms, 1, sel, x)

\* C19 witness: M_N with [replace "_" by ".", toLowerCase] on "$n" gave m.n
C19_Witness ==
    /\ TransformCase(<<"M", "_", "N">>, <<"$", "n">>)
    /\ rule.linkPattern.transforms =
        <<RegexTransform(<<"$", "n">>, <<"_">>, <<".">>),
          CommandTransform(<<"$", "n">>, TO_LOWER_CASE)>>
    /\ link.target = <<"m", ".", "n">>

\* C20: the deferred transforms act on no group; they rewrite the substituted
\* target and the substituted tooltip, in list order, after every transform
\* that selects a group, wherever they stand in the list.
C20_DeferredRunLast ==
    \A x \in PairTexts, sel \in {<<"$", "1">>, <<"$", "n">>} :
        TransformCase(x, sel) =>
            LET ts == rule.linkPattern.transforms
            IN  /\ ~link.null
                /\ link.target = Deferred(ts, 1, RewrittenBy(ts, 1, sel, x))
                /\ link.tooltip =
                    Deferred(ts, 1, IF rule.linkPattern.text = <<>> THEN OpenLink
                                    ELSE <<"a", " ", "b", "/">> \o PairSecond)

\* C20 witness: replace " " by "_" without a selector, listed before a
\* transform of "$1", rewrote the literal text and the group of the tooltip
C20_Witness ==
    /\ TransformCase(<<"a", " ", "B">>, <<"$", "1">>)
    /\ rule.linkPattern.text = TextWithSpace
    /\ rule.linkPattern.transforms =
        <<RegexTransform(<<>>, <<" ">>, <<"_">>),
          CommandTransform(<<"$", "1">>, TO_UPPER_CASE)>>
    /\ link = LinkDetails(<<"A", "_", "B">>, <<"a", "_", "b", "/", "a", "_", "B">>)

\* the text with every match of the search pattern replaced by the characters
\* of the replacement text
ReplacedLiterally(text, search, replace) ==
    LET Replaced(ms) == Assemble(text, ms, 1, 0, [k \in 1..Len(ms) |-> replace])
    IN  Replaced(MatchAll(NewRegExp(search), text, 0))

\* the text after the regex transforms of the list that select sel (the
\* deferred ones when sel is "all"), each replacing literally
RECURSIVE LiterallyBy(_, _, _, _)
LiterallyBy(ts, k, sels, text) ==
    IF k > Len(ts) THEN text
    ELSE LiterallyBy(ts, k + 1, sels,
                     IF ts[k].kind = "regex" /\ ts[k].applyTo \in sels
                     THEN ReplacedLiterally(text, ts[k].search, ts[k].replace)
                     ELSE text)

\* C21: the replacement text of a regex transform is literal: the group that
\* a transform selects, and for a transform with the selector "all" or none the
\* substituted target and tooltip, have every match of the search pattern
\* replaced by exactly the characters of the replace field, also when these
\* hold "$&", "$1", "$$" or "$<n>".
C21_ReplacementIsLiteral ==
    \A x \in PairTexts, sel \in {<<"$", "1">>, <<"$", "n">>} :
        TransformCase(x, sel) =>
            LET ts == rule.linkPattern.transforms
            IN  /\ ~link.null
                /\ link.target = LiterallyBy(ts, 1, {ALL, <<>>}, LiterallyBy(ts, 1, {sel}, x))
                /\ link.tooltip = LiterallyBy(ts, 1, {ALL, <<>>}, TooltipTemplate)

\* the capture pattern createLink compiles
CapturePattern ==
    IF rule.linkPattern.capture = <<>> THEN DefaultCapture ELSE rule.linkPattern.capture

\* C22: createLink returns null when the capture pattern is no regular
\* expression, when the search pattern of any transform is none (whichever
\* group the transform selects, one that does not exist included) and when the
\* capture does not match the value.
C22_PatternErrorsGiveNull ==
    pc = "linked" =>
        ((\/ NewRegExp(CapturePattern).err
          \/ \E k \in 1..Len(rule.linkPattern.transforms) :
                /\ rule.linkPattern.transforms[k].kind = "regex"
                /\ NewRegExp(rule.linkPattern.transforms[k].search).err
          \/ ~RegExpExec(NewRegExp(CapturePattern), matchedValue, 0).found)
         => link.null)

\* C23: with no capture pattern in the rule createLink returns a result for
\* every value, the empty one and ones with line breaks included, and "$0"
\* and "$1" are both replaced by the whole value.
C23_DefaultCaptureTakesAll ==
    (pc = "linked" /\ rule.linkPattern.capture = <<>>) =>
        /\ ~link.null
        /\ link.target =
            Substituted(rule.linkPattern.target, 1,
                        <<[name |-> <<"0">>, text |-> matchedValue],
                          [name |-> <<"1">>, text |-> matchedValue]>>)

\* the string after all substitutions
SubstitutedString == SubstituteEntries(input, vars, 1)

\* a text that holds "://" or starts with a letter, ":" and a slash of
\* either kind
UriShaped(s) ==
    \/ \E i \in 1..(Len(s) - 2) : s[i] = ":" /\ s[i + 1] = "/" /\ s[i + 2] = "/"
    \/ Len(s) >= 3 /\ s[1] \in Letters /\ s[2] = ":" /\ s[3] \in {BSL, "/"}

HasBackslash(s) == \E i \in 1..Len(s) : s[i] = BSL

\* C24: the slashes are normalised once, on the whole substituted string: when
\* it holds "://" or starts with a drive-letter prefix the result has no
\* backslash; when not, the result is the substituted string itself, with
\* every backslash in it.
C24_SlashesDecidedOnWholeString ==
    pc = "resolved" =>
        IF UriShaped(SubstitutedString) THEN ~HasBackslash(result)
        ELSE result = SubstitutedString

\* C24 witness: the backslash of the value of "${a}" and the one that "${b}"
\* brought were both flipped, the value of "${a}" holding "://"
C24_Witness ==
    /\ pc = "resolved"
    /\ input = Placeholder(VarA) \o Placeholder(VarB)
    /\ vars[1].val = <<":", "/", "/", BSL>>
    /\ result = <<":", "/", "/", "/", "/">>

\* the text with its backslashes turned into slashes
Slashed(s) == [i \in 1..Len(s) |-> IF s[i] = BSL THEN "/" ELSE s[i]]

\* the text with one "/" put after its first seven characters
OneSlashInserted(s) == SubSeq(s, 1, Len(FILE2)) \o <<"/">> \o Tail_(s, Len(FILE2) + 1)

\* C25 as stated: a result that starts with "file://" starts with "file:///";
\* one slash is inserted when the substituted string starts with "file://"
\* and not with "file:///", none when it starts with "file:///", and none
\* under "https://"; the test with "C:\..." gives "file:///C:/.../script.py".
C25_CanonicalFileForm ==
    pc = "resolved" =>
        /\ StartsWith(result, FILE2) => StartsWith(result, FILE3)
        /\ (StartsWith(SubstitutedString, FILE2) /\ ~StartsWith(SubstitutedString, FILE3))
            => result = OneSlashInserted(Slashed(SubstitutedString))
        /\ StartsWith(SubstitutedString, FILE3) => result = Slashed(SubstitutedString)
        /\ StartsWith(SubstitutedString, HTTPS) => result = Slashed(SubstitutedString)
        /\ input = FileTestInput => result = FileTestResult

\* the substituted string after the slash normalisation of C24
FlippedString ==
    IF UriShaped(SubstitutedString) THEN Slashed(SubstitutedString) ELSE SubstitutedString

\* C25 amended: the prefix is examined after the backslashes were flipped: a
\* result that starts with "file://" starts with "file:///"; one slash is
\* inserted when the flipped string starts with "file://" and not with
\* "file:///" (so none for "file://\p", whose backslash became the third
\* slash), none when it starts with "file:///", and none under "https://".
C25_CanonicalFileFormAfterFlip ==
    pc = "resolved" =>
        /\ StartsWith(result, FILE2) => StartsWith(result, FILE3)
        /\ (StartsWith(FlippedString, FILE2) /\ ~StartsWith(FlippedString, FILE3))
            => result = OneSlashInserted(FlippedString)
        /\ StartsWith(FlippedString, FILE3) => result = FlippedString
        /\ StartsWith(SubstitutedString, HTTPS) => result = Slashed(SubstitutedString)
        /\ input = FileTestInput => result = FileTestResult

\* C25 witness: the test of linkBuilder.test.ts, "file://${a}/script.py"
\* with a directory on drive C
C25_Witness ==
    /\ pc = "resolved"
    /\ input = FileTestInput
    /\ vars[1].val = FileTestValue
    /\ result = FileTestResult

\* C26: the text scan of getLinks ends for every text pattern and every text,
\* patterns that can match the empty text included: the call returns its
\* links.
C26_TextScanTerminates == <>(pc = "scanned")

\* the expression compiles and its matcher accepts the breadcrumb
ExpressionMatches(path, crumb) ==
    LET Answered(r) == ~r.threw /\ r.value
    IN  Answered(matchesPath(path, crumb))

\* the rule has no value pattern, or the pattern is found in the value
ValueValidated(rule_, value) ==
    \/ rule_.jsonPathValuePattern = <<>>
    \/ /\ ~NewRegExp(rule_.jsonPathValuePattern).err
       /\ RegExpExec(NewRegExp(rule_.jsonPathValuePattern), value, 0).found

\* the rules that can link the node: one of their expressions matches the
\* breadcrumb, the value validation passes and createLink returns a result
LinkingRules(node, rules) ==
    {k \in 1..Len(rules) :
        /\ node.isString
        /\ rules[k].jsonPath # <<>>
        /\ \E j \in 1..Len(PathsOf(rules[k])) :
                ExpressionMatches(PathsOf(rules[k])[j], node.path)
        /\ ValueValidated(rules[k], node.value)
        /\ ~createLink(node.value, rules[k]).null}

\* for each node from the i-th on, in document order, the link of the first
\* rule that can link it
RECURSIVE FirstMatchLinks(_, _, _)
FirstMatchLinks(doc, rules, i) ==
    IF i > Len(doc.nodes) THEN <<>>
    ELSE LET ks == LinkingRules(doc.nodes[i], rules)
             k  == CHOOSE m \in ks : \A n \in ks : m <= n
         IN  (IF ks = {} THEN <<>>
              ELSE <<DocumentLink(i, createLink(doc.nodes[i].value, rules[k]),
                                  buildSystemVariableMap(doc))>>)
             \o FirstMatchLinks(doc, rules, i + 1)

\* C27: the first match wins: a string-valued node is linked by the first
\* rule, in declaration order, that has an expression matching the breadcrumb,
\* whose value validation passes and for which createLink returns a result; a
\* node gets at most one link, and a rule for which createLink returns null
\* does not keep a later rule from linking the node.
C27_FirstMatchWins ==
    (document # NoDocument /\ document.languageId \in StructuredLanguages) =>
        /\ returned = FirstMatchLinks(document, allRules, 1)
        /\ \A a \in 1..Len(returned), b \in 1..Len(returned) :
                a # b => returned[a].node # returned[b].node

\* the links of a pass that are on the i-th node
NodeLinks(links, i) == SelectSeq(links, LAMBDA l : l.node = i)

\* the rules without the k-th
WithoutRule(rules, k) == SubSeq(rules, 1, k - 1) \o SubSeq(rules, k + 1, Len(rules))

\* the k-th rule has a value pattern that the value of the node does not pass
FilteredOut(rules, k, node) ==
    /\ rules[k].jsonPathValuePattern # <<>>
    /\ node.isString
    /\ ~ValueValidated(rules[k], node.value)

\* C28: a rule with a jsonPathValuePattern gives no link to a node whose
\* string value does not match the pattern, through none of its expressions,
\* and the rules after it are still tried: the links of the node are those of
\* the pass made without that rule.
C28_ValueFiltering ==
    document # NoDocument =>
        \A i \in 1..Len(document.nodes), k \in 1..Len(allRules) :
            FilteredOut(allRules, k, document.nodes[i]) =>
                NodeLinks(returned, i) =
                    NodeLinks(getLinks(document, WithoutRule(allRules, k),
                                       EmptyCache).links, i)

\* C28 witness: a rule whose expressions "$.a" and "$.*" match the node a and
\* whose value pattern "w" rejects the value "v" gave no link, and the rule
\* after it linked the node
C28_Witness ==
    /\ document = DocA
    /\ Len(allRules) = 2
    /\ FilteredOut(allRules, 1, document.nodes[1])
    /\ \A j \in 1..Len(PathsOf(allRules[1])) :
            ExpressionMatches(PathsOf(allRules[1])[j], document.nodes[1].path)
    /\ returned = <<DocumentLink(1, createLink(<<"v">>, allRules[2]),
                                 buildSystemVariableMap(document))>>
    /\ returned # <<DocumentLink(1, createLink(<<"v">>, allRules[1]),
                                 buildSystemVariableMap(document))>>

\* the parts of the value x=y before and after its first "="
EqualsAt(v) == CHOOSE i \in 1..Len(v) : v[i] = "=" /\ \A j \in 1..(i - 1) : v[j] # "="
BeforeEquals(v) == SubSeq(v, 1, EqualsAt(v) - 1)
AfterEquals(v)  == SubSeq(v, EqualsAt(v) + 1, Len(v))

\* the name of the first group of the capture
FirstGroupName == NewRegExp(rule.linkPattern.capture).groups[1].name

\* the text a transform makes of a group's text
TransformedText(t, text_) == updateGroup(t, Str(text_)).val.text

\* the working copies after the one transform of the rule, as the frame
\* describes them: the copy the selector names holds the transformed text and
\* every other copy the captured text; "all" and an absent selector name none
FrameTable ==
    LET t     == rule.linkPattern.transforms[1]
        key   == IF StartsWith(t.applyTo, <<"$">>) THEN Tail(t.applyTo) ELSE t.applyTo
        whole == matchedValue
        x     == BeforeEquals(matchedValue)
        y     == AfterEquals(matchedValue)
        Copy(name, text_, named) ==
            [name |-> name,
             text |-> IF /\ t.applyTo \notin {ALL, <<>>}
                         /\ key = name
                         /\ (named \/ key # FirstGroupName)
                      THEN TransformedText(t, text_) ELSE text_]
    IN  <<Copy(<<"0">>, whole, FALSE), Copy(<<"1">>, x, FALSE), Copy(<<"2">>, y, FALSE),
          Copy(FirstGroupName, x, TRUE)>>

\* C29: a group transform changes the working copy of the one group its
\* selector names and no other: the other positional groups and the named
\* groups keep the captured text, a selector that names no group changes
\* nothing, and a command transform with the selector "all" or with none
\* changes nothing.
C29_TransformFrame ==
    (pc = "linked" /\ Len(rule.linkPattern.transforms) = 1
        /\ rule.linkPattern.target = FrameTarget) =>
        /\ ~link.null
        /\ link.target = Substituted(FrameTarget, 1, FrameTable)

\* the provider and the cache in the states of the extension's life: one
\* provider registered while the extension is active, none before activate
\* and none after deactivate, and an empty cache after activate and after a
\* change of the section structuralLinks
LifecycleInvariant ==
    /\ pc = "inactive" => (registered = 0 /\ currentProvider = "undefined")
    /\ pc = "active" => (registered = 1 /\ currentProvider = "registered")
    /\ pc = "deactivated" => (registered = 0 /\ currentProvider = "disposed")
    /\ handled \in {"activate", "structuralLinks"} =>
            (regexCache = EmptyCache /\ registered = 1)

\* a change of another section leaves the provider, the cache and the rules
OtherSectionFrame ==
    handled' = "other" => UNCHANGED <<regexCache, currentProvider, registered, config>>

\* C30: after activate and any sequence of setting changes exactly one link
\* provider is registered and every earlier one is disposed; a change that
\* affects structuralLinks leaves an empty expression cache and the new
\* provider, a change that does not affect it leaves the provider and the
\* cache as they were, and after deactivate no provider is registered.
C30_ProviderLifecycle == [](LifecycleInvariant) /\ [][OtherSectionFrame]_allVars

\* C30 witness: a change of structuralLinks arrived after a pass had filled
\* the cache of an active extension (the last pass returned a link): one
\* provider is registered and the cache is empty
C30_Witness ==
    /\ pc = "active"
    /\ handled = "structuralLinks"
    /\ returned # <<>>
    /\ registered = 1
    /\ regexCache = EmptyCache

====
